---- MODULE Spec2Model ----
(***************************************************************************)
(* Model of the admin panel's session store (context/AuthContext.tsx), its *)
(* route gating (App.tsx), the login/signup form that drives it, and the   *)
(* order editor's item list and derived pricing (sections/ConatctUs.tsx,   *)
(* component HistoryTable).                                                *)
(*                                                                         *)
(* JavaScript values:                                                      *)
(*   - a token is a string; the in-memory `token` state is NULL or a string*)
(*   - `currentAdmin` is NullAdmin (JS null) or <<user>>                   *)
(*   - localStorage is a function whose DOMAIN is the set of keys present  *)
(*   - a JSON text is the sequence of its lexical pieces                   *)
(***************************************************************************)
EXTENDS Integers, Sequences, FiniteSets, TLC

(***************************************************************************)
(* Bounds                                                                  *)
(***************************************************************************)
\* number of distinct non-empty tokens the backend may hand out
NumTokens == 2
\* number of distinct admin ids the backend knows
NumAdmins == 1
\* longest item list handed to the fee computation on its own
MaxFeeItems == 2
\* largest quantity of an item handed to the fee computation on its own
MaxQty == 2
\* handler invocations of the order editor that may be awaiting the backend
MaxCalls == 1
\* item loads of the order editor that may be in flight together
MaxOpens == 2
\* number of items the backend accepts on top of the initial ones
MaxAdds == 1
MaxCatalog == 2
MaxRows == 2
\* offering requests that may be in flight together
MaxSubmits == 2
\* characters of a coupon code; coupon requests that may be in flight together
MaxCodeLen == 2
MaxCouponCalls == 2
\* rows handed to the generic table
MaxTableRows == 25

(***************************************************************************)
(* Values                                                                  *)
(***************************************************************************)
NULL == "<null>"
NullAdmin == << >>

TokenNames == <<"tokA", "tokB", "tokC", "tokD">>
\* every string the backend may return in response.data.token
Tokens == {""} \cup {TokenNames[i] : i \in 1..NumTokens}

AdminIds == <<"admin1", "admin2", "admin3">>
AdminUser == [id : {AdminIds[i] : i \in 1..NumAdmins}, status : {"active", "inactive"}]

\* messages the backend may put in an error body
BackendMessages == {"Invalid credentials", "Admin account is not active"}
InactiveMessage == "Your account is not active. Please contact the super admin."
LoginFailed == "Admin login failed"
SignupFailed == "Admin signup failed"

\* an axios failure: no response at all, a response without a message, or a
\* response carrying a message
AxiosErrors ==
  {[response |-> FALSE, message |-> NULL], [response |-> TRUE, message |-> NULL]}
    \cup {[response |-> TRUE, message |-> m] : m \in BackendMessages}

Paths == {"/", "/dashboard", "/admin/dashboard", "/admin/login"}

JSONstringify(u) == <<"{", "id", ":", u.id, ",", "status", ":", u.status, "}">>
JSONparse(s) == [id |-> s[4], status |-> s[8]]

\* JavaScript truthiness of a string-or-null value
Truthy(v) == v # NULL /\ v # ""

VARIABLES
  token, currentAdmin, loading, localStorage,
  effectPending, verifyReq,
  path, isLoading, formReq, activeTab, toast,
  lastOp

authVars == <<token, currentAdmin, loading, localStorage, effectPending,
              verifyReq, path, isLoading, formReq, activeTab, toast, lastOp>>

\* the fee computation on its own
VARIABLES feeItems, feeResult

feeVars == <<feeItems, feeResult>>

\* HistoryTable (the order editor) and the backend it talks to; orderToast is
\* the notification raised by the last step (NULL when it raised none)
VARIABLES
  orders, services, histLoading, error, selectedOrder, orderItems, newItem,
  modalState, orderToast, calls,
  serverItems, nextItemId, orderOp

\* the saving flag of the editor and the orders the backend holds
VARIABLES isSaving, serverOrders

\* how many requests of the editor the scenario lets be in flight together
VARIABLE callLimit

saveVars == <<isSaving, serverOrders>>

orderVars == <<orders, services, histLoading, error, selectedOrder, orderItems,
               newItem, modalState, orderToast, calls, serverItems, nextItemId,
               orderOp, saveVars, callLimit>>

\* the category lookup of fetchOrderItems on its own: a catalog, the items of
\* a response, and the items it produces
VARIABLES catServices, catItems, catResult

catVars == <<catServices, catItems, catResult>>

\* OfferingsPage and OfferingForm: the dialog's props, the four field arrays
\* and the two inputs the price table depends on, the request last submitted,
\* the requests in flight (in the order they were sent), and the offering the
\* backend holds
VARIABLES
  isFormOpen, editingOffering, features, requirements, exclusions, pricetable,
  category, subCategory, sent, offPending, storedOffering, offOp

\* the notification raised by the last step of the offering form (NULL when it
\* raised none) and whether the page's "offerings" query is marked stale
VARIABLES offToast, offeringsStale

offNoteVars == <<offToast, offeringsStale>>

offVars == <<isFormOpen, editingOffering, features, requirements, exclusions,
             pricetable, category, subCategory, sent, offPending,
             storedOffering, offOp, offNoteVars>>

\* the section of the dashboard that is mounted, and the Coupons section: its
\* two dialogs and forms, the requests in flight (in the order they were
\* sent), the body of the request last sent, the notification raised by the
\* last step and the name of that step
VARIABLES
  activeSection, isCreateOpen, isEditOpen, editingCoupon, createForm, editForm,
  couponCalls, couponSent, couponsLoading, couponToast, couponOp

couponVars == <<activeSection, isCreateOpen, isEditOpen, editingCoupon,
                createForm, editForm, couponCalls, couponSent, couponsLoading,
                couponToast, couponOp>>

\* the sections behind the dashboard's sidebar other than the order editor
\* and the offering form
\* DataTable: its data prop and the table state it keeps or leaves to the
\* table engine
VARIABLES tableData, globalFilter, sorting, pageIndex

tableVars == <<tableData, globalFilter, sorting, pageIndex>>

\* the Categories screen ("Services Management") with its form in create
\* mode, and the rows its backend holds; mainCalls are its requests in
\* flight, each with the data and formData of the render whose handler sent it
VARIABLES mainData, dataLoading, dataError, formData, mainCalls,
          serverMain, nextMainId, mainOp

mainVars == <<mainData, dataLoading, dataError, formData, mainCalls,
              serverMain, nextMainId, mainOp>>

screenVars == <<couponVars, tableVars, mainVars>>

nonAuthVars == <<feeVars, orderVars, catVars, offVars, screenVars>>
nonFeeVars == <<authVars, orderVars, catVars, offVars, screenVars>>
nonOrderVars == <<authVars, feeVars, catVars, offVars, screenVars>>
nonCatVars == <<authVars, feeVars, orderVars, offVars, screenVars>>
nonOffVars == <<authVars, feeVars, orderVars, catVars, screenVars>>
nonScreenVars == <<authVars, feeVars, orderVars, catVars, offVars>>

(***************************************************************************)
(* localStorage                                                            *)
(***************************************************************************)
getItem(ls, k) == IF k \in DOMAIN ls THEN ls[k] ELSE NULL
\* a write that never reaches the storage
setItemDropped(ls, k, v) == ls
setItem(ls, k, v) == [x \in DOMAIN ls \cup {k} |-> IF x = k THEN v ELSE ls[x]]
\* a removal that leaves the key in place
removeItemNoop(ls, k) == ls
removeItem(ls, k) == [x \in DOMAIN ls \ {k} |-> ls[x]]
EmptyStorage == [x \in {} |-> NULL]

(***************************************************************************)
(* Session store: derived value and route gating                           *)
(***************************************************************************)
\* the flag as `token !== null`
isAuthenticatedNotNull(t) == t # NULL
isAuthenticatedOf(t) == Truthy(t)
isAuthenticated == isAuthenticatedOf(token)

ProtectedRoute(ld, auth) ==
  IF ld THEN "Loading"
  ELSE IF ~auth THEN "Navigate:/"
  ELSE "Dashboard"

\* the public route without its loading test
PublicRouteNoLoading(ld, auth) ==
  IF auth THEN "Navigate:/dashboard" ELSE "LoginPage"

PublicRoute(ld, auth) ==
  IF ld THEN "Loading"
  ELSE IF auth THEN "Navigate:/dashboard"
  ELSE "LoginPage"

\* what <Routes> renders for the current location
Rendered ==
  IF path = "/" THEN PublicRoute(loading, isAuthenticated)
  ELSE IF path = "/dashboard" THEN ProtectedRoute(loading, isAuthenticated)
  ELSE "Navigate:/"

Op(name, t, u) == [name |-> name, token |-> t, user |-> u]

\* the state a freshly loaded page starts from, for a given storage content
Fresh(ls, p) ==
  /\ token = NULL
  /\ currentAdmin = NullAdmin
  /\ loading = TRUE
  /\ localStorage = ls
  /\ effectPending = TRUE
  /\ verifyReq = NULL
  /\ path = p
  /\ isLoading = FALSE
  /\ formReq = "none"
  /\ activeTab = "login"
  /\ toast = NULL
  /\ lastOp = Op("construct", NULL, NullAdmin)

(***************************************************************************)
(* AdminAuthProvider                                                       *)
(***************************************************************************)
\* a logout that forgets the stored profile
logoutStorageKeepsProfile(ls) == removeItem(ls, "admin_token")

\* logout(): the four statements of the function body
logoutStorage(ls) == removeItem(removeItem(ls, "admin_token"), "admin_user")

\* the mount effect of AdminAuthProvider
MountEffect ==
  /\ effectPending
  /\ effectPending' = FALSE
  /\ LET savedToken == getItem(localStorage, "admin_token")
         hasAdmin == "admin_user" \in DOMAIN localStorage
     IN IF Truthy(savedToken) /\ hasAdmin
        THEN /\ token' = savedToken
             /\ currentAdmin' = <<JSONparse(localStorage["admin_user"])>>
             /\ verifyReq' = savedToken
             /\ loading' = loading
             /\ lastOp' = Op("restore", savedToken, NullAdmin)
        ELSE /\ loading' = FALSE
             /\ lastOp' = Op("no_session", NULL, NullAdmin)
             /\ UNCHANGED <<token, currentAdmin, verifyReq>>
  /\ UNCHANGED <<localStorage, path, isLoading, formReq, activeTab, toast>>
  /\ UNCHANGED nonAuthVars

\* verifyAdminToken: GET /auth/admin/me answered with a user
VerifyResolve(user) ==
  /\ verifyReq # NULL
  /\ currentAdmin' = <<user>>
  /\ localStorage' = setItem(localStorage, "admin_user", JSONstringify(user))
  /\ loading' = FALSE
  /\ verifyReq' = NULL
  /\ lastOp' = Op("verify_ok", verifyReq, <<user>>)
  /\ UNCHANGED <<token, effectPending, path, isLoading, formReq, activeTab, toast>>
  /\ UNCHANGED nonAuthVars

\* verifyAdminToken: GET /auth/admin/me failed
VerifyReject ==
  /\ verifyReq # NULL
  /\ localStorage' = logoutStorage(localStorage)
  /\ token' = NULL
  /\ currentAdmin' = NullAdmin
  /\ loading' = FALSE
  /\ verifyReq' = NULL
  /\ lastOp' = Op("verify_failed", verifyReq, NullAdmin)
  /\ UNCHANGED <<effectPending, path, isLoading, formReq, activeTab, toast>>
  /\ UNCHANGED nonAuthVars

\* logout(), called by a consumer of the context that is on screen
Logout ==
  /\ ~loading
  /\ localStorage' = logoutStorage(localStorage)
  /\ token' = NULL
  /\ currentAdmin' = NullAdmin
  /\ lastOp' = Op("logout", token, currentAdmin)
  /\ UNCHANGED <<loading, effectPending, verifyReq, path, isLoading, formReq,
                 activeTab, toast>>
  /\ UNCHANGED nonAuthVars

(***************************************************************************)
(* AdminAuthForm: handleLogin / handleSignup around login() / signup()     *)
(***************************************************************************)
\* the message of the Error that login() rethrows from its catch block
loginCatchMessage(isAxiosError, err) ==
  IF isAxiosError /\ err.response
  THEN IF err.message # NULL THEN err.message ELSE LoginFailed
  ELSE LoginFailed

signupCatchMessage(err) ==
  IF err.response
  THEN IF err.message # NULL THEN err.message ELSE SignupFailed
  ELSE SignupFailed

LoginSubmit ==
  /\ Rendered = "LoginPage"
  /\ ~isLoading
  /\ isLoading' = TRUE
  /\ formReq' = "login"
  /\ lastOp' = Op("login_submit", NULL, NullAdmin)
  /\ UNCHANGED <<token, currentAdmin, loading, localStorage, effectPending,
                 verifyReq, path, activeTab, toast>>
  /\ UNCHANGED nonAuthVars

\* POST /auth/admin/login answered 2xx with {token: authToken, user}
LoginResolve(authToken, user) ==
  /\ formReq = "login"
  /\ formReq' = "none"
  /\ isLoading' = FALSE
  /\ IF user.status # "active"
     THEN \* the Error thrown in the try block is caught by login's own catch
          /\ toast' = loginCatchMessage(FALSE,
                        [response |-> FALSE, message |-> InactiveMessage])
          /\ lastOp' = Op("login_inactive", authToken, <<user>>)
          /\ UNCHANGED <<token, currentAdmin, localStorage, path>>
     ELSE /\ localStorage' = setItem(setItem(localStorage, "admin_token", authToken),
                                     "admin_user", JSONstringify(user))
          /\ token' = authToken
          /\ currentAdmin' = <<user>>
          /\ toast' = "Admin login successful"
          /\ path' = "/admin/dashboard"
          /\ lastOp' = Op("login_ok", authToken, <<user>>)
  /\ UNCHANGED <<loading, effectPending, verifyReq, activeTab>>
  /\ UNCHANGED nonAuthVars

\* POST /auth/admin/login failed
LoginReject(err) ==
  /\ formReq = "login"
  /\ formReq' = "none"
  /\ isLoading' = FALSE
  /\ toast' = loginCatchMessage(TRUE, err)
  /\ lastOp' = Op("login_rejected", NULL, NullAdmin)
  /\ UNCHANGED <<token, currentAdmin, loading, localStorage, effectPending,
                 verifyReq, path, activeTab>>
  /\ UNCHANGED nonAuthVars

SignupSubmit ==
  /\ Rendered = "LoginPage"
  /\ ~isLoading
  /\ isLoading' = TRUE
  /\ formReq' = "signup"
  /\ lastOp' = Op("signup_submit", NULL, NullAdmin)
  /\ UNCHANGED <<token, currentAdmin, loading, localStorage, effectPending,
                 verifyReq, path, activeTab, toast>>
  /\ UNCHANGED nonAuthVars

\* a signup that signs the caller in
signupLogsIn(t, admin, ls) == <<TokenNames[1], admin, ls>>

\* the session fields signup() assigns
signupSession(t, admin, ls) == <<t, admin, ls>>

\* POST /auth/admin/signup answered 2xx
SignupResolve ==
  /\ formReq = "signup"
  /\ formReq' = "none"
  /\ isLoading' = FALSE
  /\ LET s == signupSession(token, currentAdmin, localStorage)
     IN token' = s[1] /\ currentAdmin' = s[2] /\ localStorage' = s[3]
  /\ toast' = "Admin signup request submitted"
  /\ activeTab' = "login"
  /\ lastOp' = Op("signup_ok", NULL, NullAdmin)
  /\ UNCHANGED <<loading, effectPending, verifyReq, path>>
  /\ UNCHANGED nonAuthVars

\* POST /auth/admin/signup failed
SignupReject(err) ==
  /\ formReq = "signup"
  /\ formReq' = "none"
  /\ isLoading' = FALSE
  /\ LET s == signupSession(token, currentAdmin, localStorage)
     IN token' = s[1] /\ currentAdmin' = s[2] /\ localStorage' = s[3]
  /\ toast' = signupCatchMessage(err)
  /\ lastOp' = Op("signup_failed", NULL, NullAdmin)
  /\ UNCHANGED <<loading, effectPending, verifyReq, path, activeTab>>
  /\ UNCHANGED nonAuthVars

\* the Tabs control of the form
SwitchTab(t) ==
  /\ Rendered = "LoginPage"
  /\ activeTab # t
  /\ activeTab' = t
  /\ lastOp' = Op("tab", NULL, NullAdmin)
  /\ UNCHANGED <<token, currentAdmin, loading, localStorage, effectPending,
                 verifyReq, path, isLoading, formReq, toast>>
  /\ UNCHANGED nonAuthVars

(***************************************************************************)
(* Router                                                                  *)
(***************************************************************************)
\* a rendered <Navigate to=... replace /> changes the location
RouterNavigate ==
  /\ Rendered \in {"Navigate:/", "Navigate:/dashboard"}
  /\ path' = IF Rendered = "Navigate:/" THEN "/" ELSE "/dashboard"
  /\ lastOp' = Op("navigate", NULL, NullAdmin)
  \* the form unmounts with the page that held it; its state is discarded
  /\ UNCHANGED <<token, currentAdmin, loading, localStorage, effectPending,
                 verifyReq, isLoading, formReq, activeTab, toast>>
  /\ UNCHANGED nonAuthVars

\* the browser loads the application again at some location: memory is
\* reinitialised by the useState initialisers, localStorage survives
Reload(p) ==
  /\ ~effectPending
  /\ token' = NULL
  /\ currentAdmin' = NullAdmin
  /\ loading' = TRUE
  /\ effectPending' = TRUE
  /\ verifyReq' = NULL
  /\ path' = p
  /\ isLoading' = FALSE
  /\ formReq' = "none"
  /\ activeTab' = "login"
  /\ toast' = NULL
  /\ lastOp' = Op("construct", NULL, NullAdmin)
  /\ UNCHANGED localStorage
  /\ UNCHANGED nonAuthVars

(***************************************************************************)
(* Order items and the convenience fee (ConatctUs.tsx, HistoryTable)       *)
(***************************************************************************)
CleaningCategory == "Cleaning Services"
BaseFee == 39
FeeStep == 10
FeeSlab == 500

\* Array.prototype.filter with the predicate of calculateConvenienceFee
RECURSIVE filterCleaning(_)
filterCleaning(items) ==
  IF items = << >> THEN << >>
  ELSE IF Head(items).category = CleaningCategory
       THEN <<Head(items)>> \o filterCleaning(Tail(items))
       ELSE filterCleaning(Tail(items))

\* Array.prototype.reduce((total, item) => total + item.price * item.quantity, 0)
RECURSIVE reduceLineTotals(_, _)
reduceLineTotals(items, acc) ==
  IF items = << >> THEN acc
  ELSE reduceLineTotals(Tail(items), acc + Head(items).price * Head(items).quantity)

\* the fee with the first slab closed at 500
calculateConvenienceFeeInclusive(items) ==
  LET cleaningSubtotal == reduceLineTotals(filterCleaning(items), 0)
  IN IF cleaningSubtotal > 0
     THEN IF cleaningSubtotal <= FeeSlab
          THEN BaseFee
          ELSE BaseFee + (cleaningSubtotal \div FeeSlab) * FeeStep
     ELSE 0

calculateConvenienceFee(items) ==
  LET cleaningSubtotal == reduceLineTotals(filterCleaning(items), 0)
  IN IF cleaningSubtotal > 0
     THEN IF cleaningSubtotal < FeeSlab
          THEN BaseFee
          ELSE BaseFee + (cleaningSubtotal \div FeeSlab) * FeeStep
     ELSE 0

\* a subtotal that counts cleaning items only
calculateSubtotalCleaningOnly(items) == reduceLineTotals(filterCleaning(items), 0)

\* calculateSubtotal, for the item list it closes over
calculateSubtotalOf(items) == reduceLineTotals(items, 0)

(***************************************************************************)
(* The fee computation applied to arbitrary item lists                     *)
(***************************************************************************)
NotComputed == 0 - 1
FeePrices == {0, 100, 499, 500, 600}
FeeCategories == {CleaningCategory, "Pest Control", "Unknown"}
FeeItem == [price : FeePrices, quantity : 1..MaxQty, category : FeeCategories]
FeeItemLists == UNION {[1..n -> FeeItem] : n \in 0..MaxFeeItems}

FeeIdle ==
  /\ feeItems = << >>
  /\ feeResult = NotComputed

ComputeFee ==
  /\ feeResult = NotComputed
  /\ feeResult' = calculateConvenienceFee(feeItems)
  /\ UNCHANGED feeItems
  /\ UNCHANGED nonFeeVars

(***************************************************************************)
(* The backend's data for the order editor                                 *)
(***************************************************************************)
\* strings that are compared by prefix are sequences of characters
startsWith(s, p) == Len(p) <= Len(s) /\ SubSeq(s, 1, Len(p)) = p

NoOrder == << >>
NoService == << >>

\* GET /api/api/serv
Catalog ==
  << [service_code |-> <<"C", "L">>, category |-> CleaningCategory, price |-> 300,
      hasPricetable |-> TRUE, pricetable |-> << [bhk |-> "1BHK", price |-> 600] >>],
     [service_code |-> <<"P", "C">>, category |-> "Pest Control", price |-> 250,
      hasPricetable |-> FALSE, pricetable |-> << >>] >>

\* GET /api/api/orders
ServerOrders ==
  << [order_id |-> 1, first_name |-> "Asha", status |-> "Pending",
      items |-> "Deep Cleaning x 2"],
     [order_id |-> 2, first_name |-> "Ravi", status |-> "Confirmed",
      items |-> "Other x 1"] >>

OrderIds == {ServerOrders[i].order_id : i \in 1..Len(ServerOrders)}

ServerItem(id, pid, q, pr) ==
  [order_item_id |-> id, product_id |-> pid, quantity |-> q, price |-> pr]

\* the items the backend holds when the page is opened: one item per order, of
\* a cleaning service, of an unlisted product, of another service, in turn
InitialItemsOf(o) ==
  CASE o % 3 = 1 -> <<ServerItem(o, <<"C", "L", "-", "1">>, 2, 300)>>
    [] o % 3 = 2 -> <<ServerItem(o, <<"Z", "Z">>, 1, 100)>>
    [] OTHER -> <<ServerItem(o, <<"P", "C">>, 1, 250)>>

InitialServerItems == [o \in OrderIds |-> InitialItemsOf(o)]

\* what the backend may put in the message of an error body (NULL: nothing)
OrderFailures == {NULL, "Order not found"}
\* how a request about the items of an order ends: answered, or failed with
\* no message in the body
Outcomes == {"ok", NULL}

\* err.response?.data?.message || fallback
messageOr(m, fallback) == IF m # NULL THEN m ELSE fallback

\* DELETE /api/api/orders/:id/items/:itemId on the backend
RECURSIVE serverDelete(_, _)
serverDelete(items, itemId) ==
  IF items = << >> THEN << >>
  ELSE IF Head(items).order_item_id = itemId
       THEN serverDelete(Tail(items), itemId)
       ELSE <<Head(items)>> \o serverDelete(Tail(items), itemId)

hasItem(items, itemId) == \E i \in 1..Len(items) : items[i].order_item_id = itemId

\* POST /api/api/orders/:id/items on the backend: the price comes from the
\* catalog (the tier's price when a tier is given)
serverPrice(payload) ==
  LET svc == CHOOSE s \in {Catalog[i] : i \in 1..Len(Catalog)} :
               s.service_code = payload.service_code
      tiers == {i \in 1..Len(svc.pricetable) : svc.pricetable[i].bhk = payload.bhk}
  IN IF tiers = {} THEN svc.price ELSE svc.pricetable[CHOOSE i \in tiers : TRUE].price

serverAdd(items, id, payload) ==
  Append(items, ServerItem(id, payload.service_code, payload.quantity,
                           serverPrice(payload)))

(***************************************************************************)
(* HistoryTable                                                            *)
(***************************************************************************)
\* a lookup that returns the last match
findServiceLast(svcs, pid) ==
  LET hits == {i \in 1..Len(svcs) : startsWith(pid, svcs[i].service_code)}
  IN IF hits = {} THEN << >>
     ELSE <<svcs[CHOOSE i \in hits : \A j \in hits : i >= j]>>

\* services.find((s) => item.product_id.startsWith(s.service_code))
findService(svcs, pid) ==
  LET hits == {i \in 1..Len(svcs) : startsWith(pid, svcs[i].service_code)}
  IN IF hits = {} THEN << >>
     ELSE <<svcs[CHOOSE i \in hits : \A j \in hits : i <= j]>>

\* service?.category || "Unknown"
categoryOf(svcs, pid) ==
  LET service == findService(svcs, pid)
  IN IF service = << >> THEN "Unknown"
     ELSE IF service[1].category = "" THEN "Unknown" ELSE service[1].category

\* response.data.items.map(...) of fetchOrderItems
itemsWithCategory(items, svcs) ==
  IF items = << >> THEN << >>
  ELSE [i \in 1..Len(items) |->
          [order_item_id |-> items[i].order_item_id,
           product_id |-> items[i].product_id,
           quantity |-> items[i].quantity,
           price |-> items[i].price,
           category |-> categoryOf(svcs, items[i].product_id)]]

\* the result of parseInt on a text with no leading number
NaN == 0 - 1000

\* what the Quantity input can hold
QuantityTexts == {"1", "0", "-1", ""}

parseInt(q) ==
  CASE q = "1" -> 1
    [] q = "2" -> 2
    [] q = "0" -> 0
    [] q = "-1" -> 0 - 1
    [] OTHER -> NaN

EmptyNewItem == [service_code |-> NoService, quantity |-> "1", bhk |-> ""]
ClosedModal == [isOpen |-> FALSE, mode |-> NULL]
NoPayload == [service_code |-> NoService, quantity |-> 0, bhk |-> ""]

\* what tells two invocations of a handler that are in flight apart
freeSlot ==
  CHOOSE n \in 1..callLimit :
    /\ \A c \in calls : c.slot # n
    /\ \A k \in 1..(n - 1) : \E c \in calls : c.slot = k

\* an invocation of an async handler that is waiting for a response
Call(kind, oid, mode, itemId, payload, stage) ==
  [slot |-> freeSlot,
   kind |-> kind, oid |-> oid, mode |-> mode, itemId |-> itemId,
   payload |-> payload, stage |-> stage,
   itemsDone |-> FALSE, ordersDone |-> FALSE, wasLast |-> FALSE]

OrderOp(name, oid, wasLast) == [name |-> name, oid |-> oid, wasLast |-> wasLast]

\* the component returns the table and the dialog only past these two tests
Interactive == ~histLoading /\ error = NULL

DialogShown(mode) ==
  /\ Interactive
  /\ modalState.isOpen
  /\ selectedOrder # NoOrder
  /\ modalState.mode = mode

calculateSubtotal == calculateSubtotalOf(orderItems)
calculateTotal == calculateSubtotal + calculateConvenienceFee(orderItems)

\* HistoryTable right after its useState initialisers
OrderFresh(items) ==
  /\ orders = << >>
  /\ services = << >>
  /\ histLoading = TRUE
  /\ error = NULL
  /\ selectedOrder = NoOrder
  /\ orderItems = << >>
  /\ newItem = EmptyNewItem
  /\ modalState = ClosedModal
  /\ orderToast = NULL
  /\ calls = {}
  /\ serverItems = items
  /\ nextItemId = Len(ServerOrders) + 1
  /\ orderOp = OrderOp("construct", 0, FALSE)
  /\ isSaving = FALSE
  /\ serverOrders = ServerOrders
  /\ callLimit = MaxCalls

OrderIdle == OrderFresh([o \in OrderIds |-> << >>])

\* fetchData of the mount effect: both GETs answered
FetchDataResolve ==
  /\ histLoading
  /\ orders' = serverOrders
  /\ services' = Catalog
  /\ histLoading' = FALSE
  /\ orderOp' = OrderOp("fetch_data_ok", 0, FALSE)
  /\ UNCHANGED <<error, selectedOrder, orderItems, newItem, modalState, calls,
                 serverItems, nextItemId>>
  /\ orderToast' = NULL
  /\ UNCHANGED saveVars
  /\ UNCHANGED <<callLimit, nonOrderVars>>

\* fetchData of the mount effect: one of the GETs failed
FetchDataReject(m) ==
  /\ histLoading
  /\ error' = messageOr(m, "Failed to fetch data")
  /\ orderToast' = messageOr(m, "Failed to fetch data")
  /\ histLoading' = FALSE
  /\ orderOp' = OrderOp("fetch_data_failed", 0, FALSE)
  /\ UNCHANGED <<orders, services, selectedOrder, orderItems, newItem,
                 modalState, calls, serverItems, nextItemId>>
  /\ UNCHANGED saveVars
  /\ UNCHANGED <<callLimit, nonOrderVars>>

\* handleOpenModal up to its await: View / Edit button of a table row
HandleOpenModal(i, mode) ==
  /\ Interactive
  /\ ~modalState.isOpen
  /\ i \in 1..Len(orders)
  /\ Cardinality(calls) < callLimit
  /\ selectedOrder' = <<orders[i]>>
  /\ calls' = calls \cup {Call("open", orders[i].order_id, mode, 0, NoPayload, "items")}
  /\ orderOp' = OrderOp("ui", 0, FALSE)
  /\ UNCHANGED <<orders, services, histLoading, error, orderItems, newItem,
                 modalState, serverItems, nextItemId>>
  /\ orderToast' = NULL
  /\ UNCHANGED saveVars
  /\ UNCHANGED <<callLimit, nonOrderVars>>

\* handleOpenModal after its await: fetchOrderItems answered, dialog opened
OpenItemsResponse(c, outcome) ==
  /\ c \in calls
  /\ c.kind = "open"
  /\ calls' = calls \ {c}
  /\ IF outcome = "ok"
     THEN /\ orderItems' = itemsWithCategory(serverItems[c.oid], services)
          /\ UNCHANGED error
          /\ orderToast' = NULL
     ELSE /\ error' = messageOr(outcome, "Failed to fetch items")
          /\ orderToast' = messageOr(outcome, "Failed to fetch items")
          /\ UNCHANGED orderItems
  /\ modalState' = [isOpen |-> TRUE, mode |-> c.mode]
  /\ orderOp' = OrderOp(IF outcome = "ok" THEN "open_loaded" ELSE "open_failed",
                        c.oid, FALSE)
  /\ UNCHANGED <<orders, services, histLoading, selectedOrder, newItem,
                 serverItems, nextItemId>>
  /\ UNCHANGED saveVars
  /\ UNCHANGED <<callLimit, nonOrderVars>>

\* a close that writes the edited copy back into the orders list
HandleCloseModalCommitting ==
  /\ Interactive
  /\ modalState.isOpen
  /\ modalState' = ClosedModal
  /\ selectedOrder' = NoOrder
  /\ orderItems' = << >>
  /\ newItem' = EmptyNewItem
  /\ orderOp' = OrderOp("ui", 0, FALSE)
  /\ orders' = [i \in 1..Len(orders) |->
                  IF selectedOrder # NoOrder
                     /\ orders[i].order_id = selectedOrder[1].order_id
                  THEN selectedOrder[1] ELSE orders[i]]
  /\ UNCHANGED <<services, histLoading, error, calls, serverItems,
                 nextItemId>>
  /\ orderToast' = NULL
  /\ UNCHANGED saveVars
  /\ UNCHANGED <<callLimit, nonOrderVars>>

\* handleCloseModal: Close / Cancel button, Escape, click outside
HandleCloseModal ==
  /\ Interactive
  /\ modalState.isOpen
  /\ modalState' = ClosedModal
  /\ selectedOrder' = NoOrder
  /\ orderItems' = << >>
  /\ newItem' = EmptyNewItem
  /\ orderOp' = OrderOp("ui", 0, FALSE)
  /\ UNCHANGED <<orders, services, histLoading, error, calls, serverItems,
                 nextItemId>>
  /\ orderToast' = NULL
  /\ UNCHANGED saveVars
  /\ UNCHANGED <<callLimit, nonOrderVars>>

\* the Edit Booking button of the view
EditBooking ==
  /\ DialogShown("view")
  /\ modalState' = [isOpen |-> TRUE, mode |-> "edit"]
  /\ orderOp' = OrderOp("ui", 0, FALSE)
  /\ UNCHANGED <<orders, services, histLoading, error, selectedOrder,
                 orderItems, newItem, calls, serverItems, nextItemId>>
  /\ orderToast' = NULL
  /\ UNCHANGED saveVars
  /\ UNCHANGED <<callLimit, nonOrderVars>>

\* a reload that keeps the list it had
fetchedOrderItemsKept(cur, respItems, svcs) == cur

\* setOrderItems(itemsWithCategory) of fetchOrderItems
fetchedOrderItems(cur, respItems, svcs) == itemsWithCategory(respItems, svcs)

\* the service the add-item sub-form has selected, << >> when none
selectedService ==
  LET hits == {i \in 1..Len(services) : services[i].service_code = newItem.service_code}
  IN IF hits = {} THEN << >> ELSE <<services[CHOOSE i \in hits : \A j \in hits : i <= j]>>

\* a button that asks for a service only
addDisabledServiceOnly == newItem.service_code = NoService

\* the disabled attribute of the Add Item button
addDisabled ==
  \/ newItem.service_code = NoService
  \/ /\ selectedService # << >>
     /\ selectedService[1].hasPricetable
     /\ newItem.bhk = ""

\* a service select that keeps the tier of the service selected before
SelectServiceKeepingTier(code) ==
  /\ DialogShown("edit")
  /\ newItem.service_code # code
  /\ newItem' = [newItem EXCEPT !.service_code = code]
  /\ orderOp' = OrderOp("ui", 0, FALSE)
  /\ UNCHANGED <<orders, services, histLoading, error, selectedOrder,
                 orderItems, modalState, calls, serverItems, nextItemId>>
  /\ orderToast' = NULL
  /\ UNCHANGED saveVars
  /\ UNCHANGED <<callLimit, nonOrderVars>>

SelectService(code) ==
  /\ DialogShown("edit")
  /\ newItem.service_code # code
  /\ newItem' = [newItem EXCEPT !.service_code = code, !.bhk = ""]
  /\ orderOp' = OrderOp("ui", 0, FALSE)
  /\ UNCHANGED <<orders, services, histLoading, error, selectedOrder,
                 orderItems, modalState, calls, serverItems, nextItemId>>
  /\ orderToast' = NULL
  /\ UNCHANGED saveVars
  /\ UNCHANGED <<callLimit, nonOrderVars>>

SelectBhk(b) ==
  /\ DialogShown("edit")
  /\ selectedService # << >>
  /\ selectedService[1].hasPricetable
  /\ \E i \in 1..Len(selectedService[1].pricetable) : selectedService[1].pricetable[i].bhk = b
  /\ newItem.bhk # b
  /\ newItem' = [newItem EXCEPT !.bhk = b]
  /\ orderOp' = OrderOp("ui", 0, FALSE)
  /\ UNCHANGED <<orders, services, histLoading, error, selectedOrder,
                 orderItems, modalState, calls, serverItems, nextItemId>>
  /\ orderToast' = NULL
  /\ UNCHANGED saveVars
  /\ UNCHANGED <<callLimit, nonOrderVars>>

\* onChange of the Quantity input
SetQuantity(q) ==
  /\ DialogShown("edit")
  /\ newItem.quantity # q
  /\ newItem' = [newItem EXCEPT !.quantity = q]
  /\ orderOp' = OrderOp("ui", 0, FALSE)
  /\ UNCHANGED <<orders, services, histLoading, error, selectedOrder,
                 orderItems, modalState, calls, serverItems, nextItemId>>
  /\ orderToast' = NULL
  /\ UNCHANGED saveVars
  /\ UNCHANGED <<callLimit, nonOrderVars>>

\* handleAddItem up to its first await: the POST is sent
HandleAddItem ==
  /\ DialogShown("edit")
  /\ ~addDisabled
  /\ selectedOrder # NoOrder /\ newItem.service_code # NoService
  /\ Cardinality(calls) < callLimit
  /\ nextItemId <= Len(ServerOrders) + MaxAdds
  /\ calls' = calls \cup
       {Call("add", selectedOrder[1].order_id, NULL, 0,
             [service_code |-> newItem.service_code,
              quantity |-> parseInt(newItem.quantity),
              bhk |-> newItem.bhk], "mutate")}
  /\ orderOp' = OrderOp("ui", 0, FALSE)
  /\ UNCHANGED <<orders, services, histLoading, error, selectedOrder,
                 orderItems, newItem, modalState, serverItems, nextItemId>>
  /\ orderToast' = NULL
  /\ UNCHANGED saveVars
  /\ UNCHANGED <<callLimit, nonOrderVars>>

\* handleRemoveItem up to its first await: the DELETE is sent
HandleRemoveItem(k) ==
  /\ DialogShown("edit")
  /\ k \in 1..Len(orderItems)
  /\ Cardinality(calls) < callLimit
  /\ calls' = calls \cup
       {Call("remove", selectedOrder[1].order_id, NULL,
             orderItems[k].order_item_id, NoPayload, "mutate")}
  /\ orderOp' = OrderOp("ui", 0, FALSE)
  /\ UNCHANGED <<orders, services, histLoading, error, selectedOrder,
                 orderItems, newItem, modalState, serverItems, nextItemId>>
  /\ orderToast' = NULL
  /\ UNCHANGED saveVars
  /\ UNCHANGED <<callLimit, nonOrderVars>>

\* a catch block that goes on to the reloads
MutationFailedThenReloads(c, outcome) ==
  LET fallback == IF c.kind = "add" THEN "Failed to add item"
                  ELSE "Failed to remove item"
  IN /\ error' = messageOr(outcome, fallback)
     /\ orderToast' = messageOr(outcome, fallback)
     /\ calls' = (calls \ {c}) \cup {[c EXCEPT !.stage = "reload"]}
     /\ orderOp' = OrderOp(c.kind \o "_failed", c.oid, FALSE)
     /\ UNCHANGED <<serverItems, nextItemId>>

\* the catch block of handleAddItem / handleRemoveItem
MutationFailed(c, outcome) ==
  LET fallback == IF c.kind = "add" THEN "Failed to add item"
                  ELSE "Failed to remove item"
  IN /\ error' = messageOr(outcome, fallback)
     /\ orderToast' = messageOr(outcome, fallback)
     /\ calls' = calls \ {c}
     /\ orderOp' = OrderOp(c.kind \o "_failed", c.oid, FALSE)
     /\ UNCHANGED <<serverItems, nextItemId>>

\* the POST is answered; on success both reloads are issued
AddResponse(c, outcome) ==
  /\ c \in calls
  /\ c.kind = "add" /\ c.stage = "mutate"
  /\ IF outcome = "ok"
     THEN /\ nextItemId <= Len(ServerOrders) + MaxAdds
          /\ serverItems' = [serverItems EXCEPT
                               ![c.oid] = serverAdd(@, nextItemId, c.payload)]
          /\ nextItemId' = nextItemId + 1
          /\ calls' = (calls \ {c}) \cup {[c EXCEPT !.stage = "reload"]}
          /\ orderOp' = OrderOp("add_posted", c.oid, FALSE)
          /\ UNCHANGED error
          /\ orderToast' = NULL
     ELSE MutationFailed(c, outcome)
  /\ UNCHANGED <<orders, services, histLoading, selectedOrder, orderItems,
                 newItem, modalState>>
  /\ UNCHANGED saveVars
  /\ UNCHANGED <<callLimit, nonOrderVars>>

\* the DELETE is answered; on success both reloads are issued
RemoveResponse(c, outcome) ==
  /\ c \in calls
  /\ c.kind = "remove" /\ c.stage = "mutate"
  /\ IF outcome = "ok"
     THEN /\ hasItem(serverItems[c.oid], c.itemId)
          /\ serverItems' = [serverItems EXCEPT ![c.oid] = serverDelete(@, c.itemId)]
          /\ calls' = (calls \ {c}) \cup
               {[c EXCEPT !.stage = "reload",
                          !.wasLast = (Len(serverItems[c.oid]) = 1)]}
          /\ orderOp' = OrderOp("remove_deleted", c.oid, Len(serverItems[c.oid]) = 1)
          /\ UNCHANGED <<error, nextItemId>>
          /\ orderToast' = NULL
     ELSE MutationFailed(c, outcome)
  /\ UNCHANGED <<orders, services, histLoading, selectedOrder, orderItems,
                 newItem, modalState>>
  /\ UNCHANGED saveVars
  /\ UNCHANGED <<callLimit, nonOrderVars>>

\* what follows `await Promise.all([...])` once both reloads have settled
successToast(c) ==
  IF c.kind = "add" THEN "Item added successfully" ELSE "Item removed successfully"

\* fetchOrderItems of the reload is answered
ReloadItemsResponse(c, outcome) ==
  /\ c \in calls
  /\ c.stage = "reload" /\ ~c.itemsDone
  /\ IF outcome = "ok"
     THEN /\ orderItems' = fetchedOrderItems(orderItems, serverItems[c.oid], services)
          /\ UNCHANGED error
     ELSE /\ error' = messageOr(outcome, "Failed to fetch items")
          /\ UNCHANGED orderItems
  /\ IF c.ordersDone
     THEN /\ calls' = calls \ {c}
          /\ orderToast' = successToast(c)
          /\ newItem' = IF c.kind = "add" THEN EmptyNewItem ELSE newItem
     ELSE /\ calls' = (calls \ {c}) \cup {[c EXCEPT !.itemsDone = TRUE]}
          /\ orderToast' = IF outcome = "ok" THEN NULL
                           ELSE messageOr(outcome, "Failed to fetch items")
          /\ UNCHANGED newItem
  /\ orderOp' = OrderOp(c.kind \o (IF outcome = "ok" THEN "_items_reloaded"
                                   ELSE "_items_reload_failed"),
                        c.oid, c.wasLast)
  /\ UNCHANGED <<orders, services, histLoading, selectedOrder, modalState,
                 serverItems, nextItemId>>
  /\ UNCHANGED saveVars
  /\ UNCHANGED <<callLimit, nonOrderVars>>

\* fetchOrders of the reload is answered
ReloadOrdersResponse(c, outcome) ==
  /\ c \in calls
  /\ c.stage = "reload" /\ ~c.ordersDone
  /\ IF outcome = "ok"
     THEN /\ orders' = serverOrders
          /\ UNCHANGED error
     ELSE /\ error' = messageOr(outcome, "Failed to fetch orders")
          /\ UNCHANGED orders
  /\ IF c.itemsDone
     THEN /\ calls' = calls \ {c}
          /\ orderToast' = successToast(c)
          /\ newItem' = IF c.kind = "add" THEN EmptyNewItem ELSE newItem
     ELSE /\ calls' = (calls \ {c}) \cup {[c EXCEPT !.ordersDone = TRUE]}
          /\ orderToast' = IF outcome = "ok" THEN NULL
                           ELSE messageOr(outcome, "Failed to fetch orders")
          /\ UNCHANGED newItem
  /\ orderOp' = OrderOp(c.kind \o (IF outcome = "ok" THEN "_orders_reloaded"
                                   ELSE "_orders_reload_failed"),
                        c.oid, c.wasLast)
  /\ UNCHANGED <<services, histLoading, selectedOrder, orderItems, modalState,
                 serverItems, nextItemId>>
  /\ UNCHANGED saveVars
  /\ UNCHANGED <<callLimit, nonOrderVars>>

(***************************************************************************)
(* HistoryTable: the header fields of the selected order and their save    *)
(***************************************************************************)
\* the keys handleEditOrder puts in the body of its PUT (of the ten header
\* fields of the source, the two that the order records here carry)
HeaderFields == {"first_name", "status"}

\* what the user types in the First Name input
TypedNames == {"Meera"}

\* how the backend fills response.data.order: the stored order, or only the
\* fields it was sent
ResponseShapes == {"order", "fields"}

\* { ...order, ...returned }
spread(order, returned) ==
  [k \in DOMAIN order \cup DOMAIN returned |->
     IF k \in DOMAIN returned THEN returned[k] ELSE order[k]]

\* a merge that overrides every entry of the list
mergeOrderEveryEntry(prevOrders, oid, returned) ==
  IF prevOrders = << >> THEN << >>
  ELSE [i \in 1..Len(prevOrders) |-> spread(prevOrders[i], returned)]

\* the callback of setOrders in handleEditOrder
mergeOrder(prevOrders, oid, returned) ==
  IF prevOrders = << >> THEN << >>
  ELSE [i \in 1..Len(prevOrders) |->
          IF prevOrders[i].order_id = oid THEN spread(prevOrders[i], returned)
          ELSE prevOrders[i]]

\* the body of the PUT
putBody(order) == [k \in HeaderFields |-> order[k]]

\* PUT /api/api/orders/:id on the backend: the stored order takes the fields
\* of the body
serverUpdate(stored, oid, body) ==
  [i \in 1..Len(stored) |->
     IF stored[i].order_id = oid
     THEN [k \in DOMAIN stored[i] |->
             IF k \in DOMAIN body THEN body[k] ELSE stored[i][k]]
     ELSE stored[i]]

\* a save that ends by closing the dialog
ViewModalClosed == [isOpen |-> FALSE, mode |-> NULL]

\* setModalState({ isOpen: true, mode: "view" }) of handleEditOrder
ViewModal == [isOpen |-> TRUE, mode |-> "view"]

\* response.data.order of the PUT, given the orders the backend holds after it
responseOrder(shape, stored, oid, body) ==
  IF shape = "fields" THEN body
  ELSE LET hits == {i \in 1..Len(stored) : stored[i].order_id = oid}
       IN stored[CHOOSE i \in hits : TRUE]

\* onChange of the First Name input of the edit form
TypeFirstName(v) ==
  /\ DialogShown("edit")
  /\ selectedOrder[1].first_name # v
  /\ selectedOrder' = <<[selectedOrder[1] EXCEPT !.first_name = v]>>
  /\ orderOp' = OrderOp("ui", 0, FALSE)
  /\ orderToast' = NULL
  /\ UNCHANGED <<orders, services, histLoading, error, orderItems, newItem,
                 modalState, calls, serverItems, nextItemId>>
  /\ UNCHANGED saveVars
  /\ UNCHANGED <<callLimit, nonOrderVars>>

\* the items of the Status select of the edit form
StatusOptions == {"Pending", "Completed", "Cancelled"}

\* onValueChange of the Status select of the edit form
SelectStatus(v) ==
  /\ DialogShown("edit")
  /\ selectedOrder[1].status # v
  /\ selectedOrder' = <<[selectedOrder[1] EXCEPT !.status = v]>>
  /\ orderOp' = OrderOp("ui", 0, FALSE)
  /\ orderToast' = NULL
  /\ UNCHANGED <<orders, services, histLoading, error, orderItems, newItem,
                 modalState, calls, serverItems, nextItemId>>
  /\ UNCHANGED saveVars
  /\ UNCHANGED <<callLimit, nonOrderVars>>

\* handleEditOrder up to its await: Save Changes, the PUT is sent
HandleEditOrder ==
  /\ DialogShown("edit")
  /\ ~isSaving
  /\ selectedOrder # NoOrder
  /\ Cardinality(calls) < callLimit
  /\ isSaving' = TRUE
  /\ calls' = calls \cup
       {Call("save", selectedOrder[1].order_id, NULL, 0,
             putBody(selectedOrder[1]), "mutate")}
  /\ orderOp' = OrderOp("save_sent", selectedOrder[1].order_id, FALSE)
  /\ orderToast' = NULL
  /\ UNCHANGED <<orders, services, histLoading, error, selectedOrder,
                 orderItems, newItem, modalState, serverItems, nextItemId>>
  /\ UNCHANGED serverOrders
  /\ UNCHANGED <<callLimit, nonOrderVars>>

\* the PUT is answered 2xx: the try block after the await, then finally
SaveResolve(c, shape) ==
  /\ c \in calls
  /\ c.kind = "save"
  /\ serverOrders' = serverUpdate(serverOrders, c.oid, c.payload)
  /\ orders' = mergeOrder(orders, c.oid,
                          responseOrder(shape, serverOrders', c.oid, c.payload))
  /\ orderToast' = "Booking updated successfully"
  /\ modalState' = ViewModal
  /\ isSaving' = FALSE
  /\ calls' = calls \ {c}
  /\ orderOp' = OrderOp("save_ok", c.oid, FALSE)
  /\ UNCHANGED <<services, histLoading, error, selectedOrder, orderItems,
                 newItem, serverItems, nextItemId>>
  /\ UNCHANGED <<callLimit, nonOrderVars>>

\* the PUT fails: the catch block, then finally
SaveReject(c, m) ==
  /\ c \in calls
  /\ c.kind = "save"
  /\ error' = messageOr(m, "Failed to update order")
  /\ orderToast' = messageOr(m, "Failed to update order")
  /\ isSaving' = FALSE
  /\ calls' = calls \ {c}
  /\ orderOp' = OrderOp("save_failed", c.oid, FALSE)
  /\ UNCHANGED <<orders, services, histLoading, selectedOrder, orderItems,
                 newItem, modalState, serverItems, nextItemId>>
  /\ UNCHANGED serverOrders
  /\ UNCHANGED <<callLimit, nonOrderVars>>

(***************************************************************************)
(* The category lookup applied to arbitrary catalogs                       *)
(***************************************************************************)
CatCodes == {<<"C">>, <<"C", "L">>, <<"P", "C">>}
\* the category of an offering is optional text
CatCategories == {CleaningCategory, "Pest Control", ""}
CatService == [service_code : CatCodes, category : CatCategories]
CatalogLists == UNION {[1..n -> CatService] : n \in 0..MaxCatalog}
CatProducts == {<<"C", "L", "-", "1">>, <<"P", "C">>, <<"Z", "Z">>}
CatItems == {<<ServerItem(1, pid, 1, 100)>> : pid \in CatProducts}
\* no lookup made yet (a lookup over CatItems gives a non-empty list)
NoResult == << >>

CategoryIdle ==
  /\ catServices = << >>
  /\ catItems = << >>
  /\ catResult = NoResult

\* the map of fetchOrderItems over the items of a response
ResolveCategories ==
  /\ catResult = NoResult
  /\ catResult' = itemsWithCategory(catItems, catServices)
  /\ UNCHANGED <<catServices, catItems>>
  /\ UNCHANGED nonCatVars

(***************************************************************************)
(* JSON text of the nested fields of an offering: a sequence of lexical    *)
(* pieces                                                                  *)
(***************************************************************************)
quote(v) == "\"" \o v \o "\""

RowKeys == {"desc", "icon", "label", "bhk", "time", "price"}
CellTexts == {"", "Fast", "Safe", "Quick", "1BHK", "2 hrs", "999"}
JSONTexts == CellTexts \cup RowKeys

IsString(tok) == \E v \in JSONTexts : quote(v) = tok
unquote(tok) == CHOOSE v \in JSONTexts : quote(v) = tok

\* the keys of a section's rows, in the order of its zod schema
SectionKeys(sec) ==
  CASE sec = "features" -> <<"desc", "icon", "label">>
    [] sec = "requirements" -> <<"icon", "label">>
    [] sec = "exclusions" -> <<"icon", "label">>
    [] sec = "pricetable" -> <<"bhk", "time", "price">>

Sections == {"features", "requirements", "exclusions", "pricetable"}

keySet(sec) == {SectionKeys(sec)[i] : i \in 1..Len(SectionKeys(sec))}

RECURSIVE stringifyPairs(_, _, _)
stringifyPairs(r, keys, i) ==
  IF i > Len(keys) THEN << >>
  ELSE (IF i > 1 THEN <<",">> ELSE << >>)
       \o <<quote(keys[i]), ":",
            IF r[keys[i]] = NULL THEN "null" ELSE quote(r[keys[i]])>>
       \o stringifyPairs(r, keys, i + 1)

RECURSIVE stringifyElems(_, _, _)
stringifyElems(rows, keys, i) ==
  IF i > Len(rows) THEN << >>
  ELSE (IF i > 1 THEN <<",">> ELSE << >>)
       \o <<"{">> \o stringifyPairs(rows[i], keys, 1) \o <<"}">>
       \o stringifyElems(rows, keys, i + 1)

\* JSON.stringify of an array of rows
stringifyRows(rows, keys) == <<"[">> \o stringifyElems(rows, keys, 1) \o <<"]">>

\* the members of an object from position i on: <<record, position of "}">>,
\* << >> on a syntax error
RECURSIVE parsePairs(_, _)
parsePairs(t, i) ==
  IF i + 3 > Len(t) THEN << >>
  ELSE IF ~IsString(t[i]) \/ t[i + 1] # ":"
          \/ ~(IsString(t[i + 2]) \/ t[i + 2] = "null") THEN << >>
  ELSE LET k == unquote(t[i])
           v == IF t[i + 2] = "null" THEN NULL ELSE unquote(t[i + 2])
       IN IF t[i + 3] = "}" THEN <<(k :> v), i + 3>>
          ELSE IF t[i + 3] # "," THEN << >>
          ELSE LET rest == parsePairs(t, i + 4)
               IN IF Len(rest) = 0 THEN << >>
                  ELSE <<rest[1] @@ (k :> v), rest[2]>>

\* the elements of an array from position i on: <<rows>>, << >> on an error
RECURSIVE parseElems(_, _, _)
parseElems(t, i, rows) ==
  IF i > Len(t) \/ t[i] # "{" THEN << >>
  ELSE LET o == parsePairs(t, i + 1)
       IN IF Len(o) = 0 THEN << >>
          ELSE IF o[2] + 1 > Len(t) THEN << >>
          ELSE IF t[o[2] + 1] = "]"
               THEN IF o[2] + 1 = Len(t) THEN <<Append(rows, o[1])>> ELSE << >>
          ELSE IF t[o[2] + 1] = ","
               THEN parseElems(t, o[2] + 2, Append(rows, o[1]))
          ELSE << >>

Parsed(kind, rows) == [kind |-> kind, rows |-> rows]

\* JSON.parse: an array of objects, another JSON value, or a SyntaxError
JSONparseText(t) ==
  IF Len(t) = 0 THEN Parsed("throw", << >>)
  ELSE IF t[1] = "["
       THEN IF t = <<"[", "]">> THEN Parsed("array", << >>)
            ELSE LET e == parseElems(t, 2, << >>)
                 IN IF Len(e) = 0 THEN Parsed("throw", << >>)
                    ELSE Parsed("array", e[1])
  ELSE IF t[1] = "{"
       THEN IF t = <<"{", "}">> THEN Parsed("other", << >>)
            ELSE LET o == parsePairs(t, 2)
                 IN IF Len(o) # 0 /\ o[2] = Len(t) THEN Parsed("other", << >>)
                    ELSE Parsed("throw", << >>)
  ELSE IF Len(t) = 1 /\ (IsString(t[1]) \/ t[1] \in {"null", "7"})
       THEN Parsed("other", << >>)
  ELSE Parsed("throw", << >>)

(***************************************************************************)
(* OfferingForm                                                            *)
(***************************************************************************)
\* a field of an offering: << >> when absent, <<text>> when a string
NoField == << >>
NoOffering == << >>

EmptyFeature == [desc |-> "", icon |-> "", label |-> ""]
EmptyRequirement == [icon |-> "", label |-> ""]
EmptyExclusion == [icon |-> "", label |-> ""]
EmptyPriceTable == [bhk |-> "", time |-> "", price |-> ""]

\* an element kept as the JSON text had it
fillKeysKept(item) == item

\* the object parseJsonField makes of an element of the parsed array
fillKeys(item) ==
  [k \in DOMAIN item \cup RowKeys |->
     IF k \in RowKeys
     THEN IF k \in DOMAIN item /\ item[k] # NULL THEN item[k] ELSE ""
     ELSE item[k]]

mapFillKeys(rows) ==
  IF Len(rows) = 0 THEN << >> ELSE [i \in 1..Len(rows) |-> fillKeys(rows[i])]

parseJsonField(field, defaultValue) ==
  IF Len(field) = 0 THEN defaultValue
  ELSE IF Len(field[1]) = 0 THEN defaultValue
  ELSE LET parsed == JSONparseText(field[1])
       IN IF parsed.kind = "array" THEN mapFillKeys(parsed.rows)
          ELSE defaultValue

\* the price table is shown, and given a first row, for these offerings only
priceTableRequired(cat, sub) ==
  cat = CleaningCategory /\ sub \in {"Full Home", "Empty Home"}

\* an effect that leaves an empty section empty
ensureRowNever(rows, empty, wanted) == rows

\* the effect "Initialize with at least one row if empty", for one section
ensureRow(rows, empty, wanted) ==
  IF wanted /\ Len(rows) = 0 THEN <<empty>> ELSE rows

\* fields.remove(index) of useFieldArray
removeAt(rows, i) ==
  IF Len(rows) = 1 THEN << >>
  ELSE [j \in 1..(Len(rows) - 1) |-> IF j < i THEN rows[j] ELSE rows[j + 1]]

\* what zod hands to onSubmit for one section: the schema's keys only
zodRows(rows, sec) ==
  IF Len(rows) = 0 THEN << >>
  ELSE [i \in 1..Len(rows) |-> [k \in keySet(sec) |-> rows[i][k]]]

\* a check that looks at the first row only
rowsValidFirstRow(rows, sec) ==
  Len(rows) # 0 =>
    /\ keySet(sec) \subseteq DOMAIN rows[1]
    /\ IF sec = "pricetable"
       THEN \A k \in keySet(sec) : rows[1][k] \notin {NULL, ""}
       ELSE rows[1].label \notin {NULL, ""}

\* the schema of a section's rows accepts them
rowsValid(rows, sec) ==
  \A i \in 1..Len(rows) :
    /\ keySet(sec) \subseteq DOMAIN rows[i]
    /\ IF sec = "pricetable"
       THEN \A k \in keySet(sec) : rows[i][k] \notin {NULL, ""}
       ELSE rows[i].label \notin {NULL, ""}

\* data.x?.length ? JSON.stringify(data.x) : undefined
formatField(rows, sec) ==
  IF Len(rows) = 0 THEN NoField ELSE <<stringifyRows(rows, SectionKeys(sec))>>

OffFresh ==
  /\ isFormOpen = FALSE
  /\ editingOffering = NoOffering
  /\ features = <<EmptyFeature>>
  /\ requirements = <<EmptyRequirement>>
  /\ exclusions = <<EmptyExclusion>>
  /\ pricetable = << >>
  /\ category = ""
  /\ subCategory = ""
  /\ sent = << >>
  /\ offPending = << >>
  /\ storedOffering = NoOffering
  /\ offOp = "construct"
  /\ offToast = NULL
  /\ offeringsStale = FALSE

OfferingIdle == OffFresh

\* a step of the form that raises no notification and leaves the query alone
OffQuiet == offToast' = NULL /\ UNCHANGED offeringsStale

\* the reset effect followed by the ensure-row effect
ResetForm(o) ==
  LET cat == IF Len(o) = 0 THEN "" ELSE o[1].category
      sub == IF Len(o) = 0 THEN "" ELSE o[1].subCategory
      f == IF Len(o) = 0 THEN <<EmptyFeature>>
           ELSE parseJsonField(o[1].features, <<EmptyFeature>>)
      r == IF Len(o) = 0 THEN <<EmptyRequirement>>
           ELSE parseJsonField(o[1].requirements, <<EmptyRequirement>>)
      e == IF Len(o) = 0 THEN <<EmptyExclusion>>
           ELSE parseJsonField(o[1].exclusions, <<EmptyExclusion>>)
      p == IF Len(o) = 0 THEN << >> ELSE parseJsonField(o[1].pricetable, << >>)
  IN /\ category' = cat
     /\ subCategory' = sub
     /\ features' = ensureRow(f, EmptyFeature, TRUE)
     /\ requirements' = ensureRow(r, EmptyRequirement, TRUE)
     /\ exclusions' = ensureRow(e, EmptyExclusion, TRUE)
     /\ pricetable' = ensureRow(p, EmptyPriceTable, priceTableRequired(cat, sub))

\* the Add Offering button of the page
OpenCreate ==
  /\ ~isFormOpen
  /\ editingOffering' = NoOffering
  /\ isFormOpen' = TRUE
  /\ ResetForm(NoOffering)
  /\ offOp' = "open_create"
  /\ OffQuiet
  /\ UNCHANGED <<sent, offPending, storedOffering>>
  /\ UNCHANGED nonOffVars

\* handleEdit of the page for a row of the offerings table
OpenEdit(o) ==
  /\ ~isFormOpen
  /\ editingOffering' = <<o>>
  /\ isFormOpen' = TRUE
  /\ ResetForm(<<o>>)
  /\ offOp' = "open_edit"
  /\ OffQuiet
  /\ UNCHANGED <<sent, offPending, storedOffering>>
  /\ UNCHANGED nonOffVars

\* Cancel, Escape or a click outside the dialog
CloseForm ==
  /\ isFormOpen
  /\ isFormOpen' = FALSE
  /\ offOp' = "close"
  /\ OffQuiet
  /\ UNCHANGED <<editingOffering, features, requirements, exclusions,
                 pricetable, category, subCategory, sent, offPending,
                 storedOffering>>
  /\ UNCHANGED nonOffVars

rowsOf(sec) ==
  CASE sec = "features" -> features
    [] sec = "requirements" -> requirements
    [] sec = "exclusions" -> exclusions
    [] sec = "pricetable" -> pricetable

emptyRowOf(sec) ==
  CASE sec = "features" -> EmptyFeature
    [] sec = "requirements" -> EmptyRequirement
    [] sec = "exclusions" -> EmptyExclusion
    [] sec = "pricetable" -> EmptyPriceTable

\* the rows of a section are on screen (the price table's only when required)
sectionShown(sec) ==
  isFormOpen /\ (sec = "pricetable" => priceTableRequired(category, subCategory))

\* the four field arrays after one of them changed and the ensure-row effect ran
SetRows(sec, rows) ==
  /\ features' = ensureRow(IF sec = "features" THEN rows ELSE features,
                           EmptyFeature, TRUE)
  /\ requirements' = ensureRow(IF sec = "requirements" THEN rows ELSE requirements,
                               EmptyRequirement, TRUE)
  /\ exclusions' = ensureRow(IF sec = "exclusions" THEN rows ELSE exclusions,
                             EmptyExclusion, TRUE)
  /\ pricetable' = ensureRow(IF sec = "pricetable" THEN rows ELSE pricetable,
                             EmptyPriceTable,
                             priceTableRequired(category', subCategory'))

\* Add Feature / Add Requirement / Add Exclusion / Add Price Option
AddRow(sec) ==
  /\ sectionShown(sec)
  /\ Len(rowsOf(sec)) < MaxRows
  /\ UNCHANGED <<category, subCategory>>
  /\ SetRows(sec, Append(rowsOf(sec), emptyRowOf(sec)))
  /\ offOp' = "add_row"
  /\ OffQuiet
  /\ UNCHANGED <<isFormOpen, editingOffering, sent, offPending, storedOffering>>
  /\ UNCHANGED nonOffVars

\* the trash button of a row, disabled when the row is the only one
RemoveRow(sec, i) ==
  /\ sectionShown(sec)
  /\ i \in 1..Len(rowsOf(sec))
  /\ Len(rowsOf(sec)) # 1
  /\ UNCHANGED <<category, subCategory>>
  /\ SetRows(sec, removeAt(rowsOf(sec), i))
  /\ offOp' = "remove_row"
  /\ OffQuiet
  /\ UNCHANGED <<isFormOpen, editingOffering, sent, offPending, storedOffering>>
  /\ UNCHANGED nonOffVars

\* typing in the Category and Sub Category inputs, then the ensure-row effect
SetCategory(cat, sub) ==
  /\ isFormOpen
  /\ <<cat, sub>> # <<category, subCategory>>
  /\ category' = cat
  /\ subCategory' = sub
  /\ SetRows("none", << >>)
  /\ offOp' = "set_category"
  /\ OffQuiet
  /\ UNCHANGED <<isFormOpen, editingOffering, sent, offPending, storedOffering>>
  /\ UNCHANGED nonOffVars

\* typing v into the input of key k of the i-th row of a section
TypeCell(sec, i, k, v) ==
  /\ sectionShown(sec)
  /\ i \in 1..Len(rowsOf(sec))
  /\ k \in keySet(sec)
  /\ rowsOf(sec)[i][k] # v
  /\ UNCHANGED <<category, subCategory>>
  /\ SetRows(sec, [rowsOf(sec) EXCEPT ![i] = [@ EXCEPT ![k] = v]])
  /\ offOp' = "type_cell"
  /\ OffQuiet
  /\ UNCHANGED <<isFormOpen, editingOffering, sent, offPending, storedOffering>>
  /\ UNCHANGED nonOffVars

\* the request body: formattedData of createMutation / updateMutation
formattedData(f, r, e, p, cat, sub) ==
  [features |-> formatField(f, "features"),
   requirements |-> formatField(r, "requirements"),
   exclusions |-> formatField(e, "exclusions"),
   pricetable |-> formatField(p, "pricetable"),
   category |-> cat, subCategory |-> sub]

\* the disabled attribute of the submit button once onSubmit has returned:
\* isLoading || isUploading, where onSubmit sets isLoading and clears it again
\* without awaiting the request, and no image upload is running
submitDisabled == FALSE

\* form.handleSubmit(onSubmit): validation, then mutate() of the update
\* mutation when the form was given an offering, of the create mutation
\* otherwise; isLoading is set and cleared within the handler, so the submit
\* button is enabled again as soon as the handler returns
SubmitOffering ==
  /\ isFormOpen
  /\ Len(offPending) < MaxSubmits
  /\ \A sec \in Sections : rowsValid(rowsOf(sec), sec)
  /\ LET f == zodRows(features, "features")
         r == zodRows(requirements, "requirements")
         e == zodRows(exclusions, "exclusions")
         p == zodRows(pricetable, "pricetable")
         body == formattedData(f, r, e, p, category, subCategory)
     IN /\ sent' = <<[values |-> [features |-> f, requirements |-> r,
                                  exclusions |-> e, pricetable |-> p],
                      body |-> body]>>
        /\ offPending' = Append(offPending,
                                [kind |-> IF Len(editingOffering) = 0
                                          THEN "create" ELSE "update",
                                 body |-> body])
  /\ offOp' = "submit"
  /\ OffQuiet
  /\ UNCHANGED <<isFormOpen, editingOffering, features, requirements,
                 exclusions, pricetable, category, subCategory, storedOffering>>
  /\ UNCHANGED nonOffVars

OfferingSaved(kind) ==
  IF kind = "create" THEN "Offering created successfully"
  ELSE "Offering updated successfully"

\* onSuccess that invalidates the query but leaves the dialog as it is
mutationSucceededStaysOpen(open) == open

\* onSuccess of either mutation: onOpenChange(false)
mutationSucceeded(open) == FALSE

\* the i-th request in flight is answered with success; the backend keeps the
\* fields it was sent
SubmitResolve(i) ==
  /\ i \in 1..Len(offPending)
  /\ offPending' = removeAt(offPending, i)
  /\ storedOffering' = <<offPending[i].body>>
  /\ offeringsStale' = TRUE
  /\ offToast' = OfferingSaved(offPending[i].kind)
  /\ isFormOpen' = mutationSucceeded(isFormOpen)
  /\ offOp' = "submit_ok"
  /\ UNCHANGED <<editingOffering, features, requirements, exclusions,
                 pricetable, category, subCategory, sent>>
  /\ UNCHANGED nonOffVars

\* the message of a failed request's body, NULL when it has none
OfferingFailures == {NULL, "Service code already exists"}

\* the Error thrown by createOffering / updateOffering
offeringError(kind, m) ==
  messageOr(m, IF kind = "create" THEN "Failed to create offering"
               ELSE "Failed to update offering")

\* onError of either mutation: toast.error(error.message)
SubmitReject(i, m) ==
  /\ i \in 1..Len(offPending)
  /\ offPending' = removeAt(offPending, i)
  /\ offToast' = offeringError(offPending[i].kind, m)
  /\ offOp' = "submit_failed"
  /\ UNCHANGED <<isFormOpen, editingOffering, features, requirements,
                 exclusions, pricetable, category, subCategory, sent,
                 storedOffering, offeringsStale>>
  /\ UNCHANGED nonOffVars

\* the "offerings" query refetches after it was invalidated
RefetchOfferings ==
  /\ offeringsStale
  /\ offeringsStale' = FALSE
  /\ offToast' = NULL
  /\ offOp' = "refetch"
  /\ UNCHANGED <<isFormOpen, editingOffering, features, requirements,
                 exclusions, pricetable, category, subCategory, sent,
                 offPending, storedOffering>>
  /\ UNCHANGED nonOffVars

(***************************************************************************)
(* Coupons                                                                 *)
(***************************************************************************)
\* amounts are counted in thousandths; what the user may type as a discount
DiscountInputs == {0 - 1000, 0, 4, 6, 10000, 12344, 12500}

\* a coupon code is the sequence of its characters
CodeChars == {"a", "A", "1"}
Codes == UNION {[1..n -> CodeChars] : n \in 0..MaxCodeLen}

upperChar(ch) == IF ch = "a" THEN "A" ELSE ch

\* a transform that leaves the code as typed
toUpperCaseKept(code) == code

\* String.prototype.toUpperCase
toUpperCase(code) ==
  IF Len(code) = 0 THEN << >> ELSE [i \in 1..Len(code) |-> upperChar(code[i])]

\* rounding that drops the digits after the second decimal
toFixed2Truncated(v) == (v \div 10) * 10

\* Number(val.toFixed(2)) of a non-negative amount that is not half way
\* between two hundredths
toFixed2(v) == IF v % 10 < 5 THEN (v \div 10) * 10 ELSE ((v \div 10) + 1) * 10

DiscountTypes == {"percentage", "fixed"}

CouponDefaults ==
  [code |-> << >>, discount_type |-> "percentage", discount_value |-> 0,
   is_active |-> TRUE]

\* couponSchema accepts the values of a form
couponValid(form) ==
  /\ Len(form.code) >= 1
  /\ form.discount_type \in DiscountTypes
  /\ form.discount_value > 0

\* what couponSchema hands to the submit handler
couponParsed(form) ==
  [code |-> toUpperCase(form.code),
   discount_type |-> form.discount_type,
   discount_value |-> toFixed2(form.discount_value),
   is_active |-> form.is_active]

\* the body of the POST / PUT
couponBody(data) ==
  [code |-> data.code, discount_type |-> data.discount_type,
   discount_value |-> data.discount_value,
   is_active |-> IF data.is_active THEN 1 ELSE 0]

NoCoupon == << >>

\* the rows of the coupons table
StoredCoupons ==
  {[id |-> 1, code |-> <<"A", "1">>, type |-> "fixed", discount |-> 12500,
    is_active |-> FALSE]}

CouponFresh ==
  /\ isCreateOpen = FALSE
  /\ isEditOpen = FALSE
  /\ editingCoupon = NoCoupon
  /\ createForm = CouponDefaults
  /\ editForm = CouponDefaults
  /\ couponCalls = << >>
  /\ couponSent = << >>
  /\ couponsLoading = FALSE
  /\ couponToast = NULL
  /\ couponOp = "construct"

\* another section of the dashboard is mounted
CouponIdle == activeSection = NULL /\ CouponFresh

CouponsMounted == activeSection = "Add Coupons"

\* the Create New Coupon button (DialogTrigger)
OpenCreateDialog ==
  /\ CouponsMounted
  /\ ~isCreateOpen /\ ~isEditOpen
  /\ isCreateOpen' = TRUE
  /\ couponToast' = NULL
  /\ couponOp' = "open_create"
  /\ UNCHANGED <<activeSection, isEditOpen, editingCoupon, createForm, editForm,
                 couponCalls, couponSent, couponsLoading>>
  /\ UNCHANGED <<tableVars, mainVars, nonScreenVars>>

\* openEditModal for a row of the table
OpenEditModal(c) ==
  /\ CouponsMounted
  /\ ~isCreateOpen /\ ~isEditOpen
  /\ editingCoupon' = <<c>>
  /\ editForm' = [code |-> c.code, discount_type |-> c.type,
                  discount_value |-> c.discount, is_active |-> c.is_active]
  /\ isEditOpen' = TRUE
  /\ couponToast' = NULL
  /\ couponOp' = "open_edit"
  /\ UNCHANGED <<activeSection, isCreateOpen, createForm, couponCalls,
                 couponSent, couponsLoading>>
  /\ UNCHANGED <<tableVars, mainVars, nonScreenVars>>

\* Cancel, Escape or a click outside the dialog that is open
CloseCouponDialog ==
  /\ CouponsMounted
  /\ isCreateOpen \/ isEditOpen
  /\ isCreateOpen' = FALSE
  /\ isEditOpen' = FALSE
  /\ couponToast' = NULL
  /\ couponOp' = "close"
  /\ UNCHANGED <<activeSection, editingCoupon, createForm, editForm, couponCalls,
                 couponSent, couponsLoading>>
  /\ UNCHANGED <<tableVars, mainVars, nonScreenVars>>

\* typing or selecting a value in a field of the form of the open dialog
SetCouponField(field, v) ==
  /\ CouponsMounted
  /\ isCreateOpen \/ isEditOpen
  /\ IF isCreateOpen
     THEN /\ createForm[field] # v
          /\ createForm' = [createForm EXCEPT ![field] = v]
          /\ UNCHANGED editForm
     ELSE /\ editForm[field] # v
          /\ editForm' = [editForm EXCEPT ![field] = v]
          /\ UNCHANGED createForm
  /\ couponToast' = NULL
  /\ couponOp' = "type"
  /\ UNCHANGED <<activeSection, isCreateOpen, isEditOpen, editingCoupon,
                 couponCalls, couponSent, couponsLoading>>
  /\ UNCHANGED <<tableVars, mainVars, nonScreenVars>>

\* createForm.handleSubmit(createCoupon) up to the await: the POST is sent
CreateCoupon ==
  /\ CouponsMounted
  /\ isCreateOpen
  /\ Truthy(token)
  /\ couponValid(createForm)
  /\ Len(couponCalls) < MaxCouponCalls
  /\ couponSent' = <<couponBody(couponParsed(createForm))>>
  /\ couponCalls' = Append(couponCalls, "create")
  /\ couponToast' = NULL
  /\ couponOp' = "create_sent"
  /\ UNCHANGED <<activeSection, isCreateOpen, isEditOpen, editingCoupon,
                 createForm, editForm, couponsLoading>>
  /\ UNCHANGED <<tableVars, mainVars, nonScreenVars>>

\* editForm.handleSubmit(updateCoupon) up to the await: the PUT is sent
UpdateCoupon ==
  /\ CouponsMounted
  /\ isEditOpen
  /\ Truthy(token)
  /\ Len(editingCoupon) # 0
  /\ couponValid(editForm)
  /\ Len(couponCalls) < MaxCouponCalls
  /\ couponSent' = <<couponBody(couponParsed(editForm))>>
  /\ couponCalls' = Append(couponCalls, "update")
  /\ couponToast' = NULL
  /\ couponOp' = "update_sent"
  /\ UNCHANGED <<activeSection, isCreateOpen, isEditOpen, editingCoupon,
                 createForm, editForm, couponsLoading>>
  /\ UNCHANGED <<tableVars, mainVars, nonScreenVars>>

\* the message of a failed request's body, NULL when it has none
CouponFailures == {NULL, "Coupon code already exists"}

\* a handler that reloads the list but leaves its dialog open
couponSavedStaysOpen(open) == open

\* setIsCreateOpen(false) / setIsEditOpen(false) after the awaited request
couponSaved(open) == FALSE

\* the i-th request in flight is a POST or PUT and is answered with success:
\* the rest of createCoupon / updateCoupon, fetchCoupons up to its await
CouponSaveResolve(i) ==
  /\ i \in 1..Len(couponCalls)
  /\ couponCalls[i] \in {"create", "update"}
  /\ couponCalls' = [couponCalls EXCEPT ![i] = "fetch"]
  /\ couponsLoading' = TRUE
  /\ IF couponCalls[i] = "create"
     THEN /\ couponToast' = "Coupon created successfully!"
          /\ isCreateOpen' = couponSaved(isCreateOpen)
          /\ createForm' = CouponDefaults
          /\ couponOp' = "create_ok"
          /\ UNCHANGED <<isEditOpen, editingCoupon, editForm>>
     ELSE /\ couponToast' = "Coupon updated successfully!"
          /\ isEditOpen' = couponSaved(isEditOpen)
          /\ editingCoupon' = NoCoupon
          /\ couponOp' = "update_ok"
          /\ UNCHANGED <<isCreateOpen, createForm, editForm>>
  /\ UNCHANGED <<activeSection, couponSent>>
  /\ UNCHANGED <<tableVars, mainVars, nonScreenVars>>

\* the i-th request in flight is a POST or PUT and fails: the catch block
CouponSaveReject(i, m) ==
  /\ i \in 1..Len(couponCalls)
  /\ couponCalls[i] \in {"create", "update"}
  /\ couponCalls' = removeAt(couponCalls, i)
  /\ couponToast' = messageOr(m, IF couponCalls[i] = "create"
                                 THEN "Failed to create coupon."
                                 ELSE "Failed to update coupon.")
  /\ couponOp' = IF couponCalls[i] = "create" THEN "create_failed" ELSE "update_failed"
  /\ UNCHANGED <<activeSection, isCreateOpen, isEditOpen, editingCoupon,
                 createForm, editForm, couponSent, couponsLoading>>
  /\ UNCHANGED <<tableVars, mainVars, nonScreenVars>>

\* the GET of fetchCoupons is answered or fails: finally setIsLoading(false)
FetchCouponsDone(i, outcome) ==
  /\ i \in 1..Len(couponCalls)
  /\ couponCalls[i] = "fetch"
  /\ couponCalls' = removeAt(couponCalls, i)
  /\ couponsLoading' = FALSE
  /\ couponToast' = IF outcome = "ok" THEN NULL
                    ELSE "Failed to load coupons. Please try again."
  /\ couponOp' = "fetch_done"
  /\ UNCHANGED <<activeSection, isCreateOpen, isEditOpen, editingCoupon,
                 createForm, editForm, couponSent>>
  /\ UNCHANGED <<tableVars, mainVars, nonScreenVars>>

(***************************************************************************)
(* DataTable: global filter, then sorting, then pagination                 *)
(***************************************************************************)
\* the page size the table engine starts with
PageSize == 10

\* the text cell of the rows handed to the table, row after row
RowTexts == << <<"a", "b">>, <<"B", "c">>, <<"c">> >>

TableRows(n) ==
  [i \in 1..n |-> [id |-> i, name |-> RowTexts[((i - 1) % Len(RowTexts)) + 1]]]

\* what is typed into the search box
FilterTexts == {<< >>, <<"b">>, <<"C">>, <<"z", "z">>}

lowerChar(ch) == CASE ch = "B" -> "b" [] ch = "C" -> "c" [] OTHER -> ch

toLowerCase(text) ==
  IF Len(text) = 0 THEN << >> ELSE [i \in 1..Len(text) |-> lowerChar(text[i])]

\* String.prototype.includes
includes(text, part) ==
  \E i \in 1..(Len(text) + 1) :
    /\ i + Len(part) - 1 <= Len(text)
    /\ SubSeq(text, i, i + Len(part) - 1) = part

\* the engine's filter for text cells
includesString(row, f) == includes(toLowerCase(row.name), toLowerCase(f))

getFilteredRowModel(data, f) ==
  IF Len(f) = 0 THEN data ELSE SelectSeq(data, LAMBDA r : includesString(r, f))

SortingStates == {"none", "asc", "desc"}

getSortedRowModel(rows, s) ==
  IF s = "desc" THEN SortSeq(rows, LAMBDA a, b : a.id > b.id)
  ELSE IF s = "asc" THEN SortSeq(rows, LAMBDA a, b : a.id < b.id)
  ELSE rows

getPaginationRowModel(rows, page) ==
  SubSeq(rows, page * PageSize + 1,
         IF (page + 1) * PageSize < Len(rows) THEN (page + 1) * PageSize ELSE Len(rows))

\* Math.ceil(rows / pageSize)
getPageCountOf(count) == (count + PageSize - 1) \div PageSize

filteredRows == getFilteredRowModel(tableData, globalFilter)

getPageCount == getPageCountOf(Len(filteredRows))

\* table.getRowModel().rows: the rows of the current page
getRowModel ==
  getPaginationRowModel(getSortedRowModel(filteredRows, sorting), pageIndex)

\* a summary that counts the rows of the data prop
summaryCountOfData == Len(tableData)

\* "{table.getFilteredRowModel().rows.length} of {data.length} items"
summaryCount == Len(filteredRows)

\* a body that never renders the placeholder row
noResultsShownNever == FALSE

\* the "No results found." row replaces the body when the page has no row
noResultsShown == Len(getRowModel) = 0

getCanNextPage == pageIndex < getPageCount - 1
getCanPreviousPage == pageIndex > 0

TableIdle ==
  /\ tableData = << >>
  /\ globalFilter = << >>
  /\ sorting = "none"
  /\ pageIndex = 0

\* typing in the search box; the engine goes back to the first page
SetGlobalFilter(f) ==
  /\ f # globalFilter
  /\ globalFilter' = f
  /\ pageIndex' = 0
  /\ UNCHANGED <<tableData, sorting>>
  /\ UNCHANGED <<couponVars, mainVars, nonScreenVars>>

\* a click on a sortable header; the engine goes back to the first page
SetSorting(s) ==
  /\ s # sorting
  /\ sorting' = s
  /\ pageIndex' = 0
  /\ UNCHANGED <<tableData, globalFilter>>
  /\ UNCHANGED <<couponVars, mainVars, nonScreenVars>>

NextPage ==
  /\ getCanNextPage
  /\ pageIndex' = pageIndex + 1
  /\ UNCHANGED <<tableData, globalFilter, sorting>>
  /\ UNCHANGED <<couponVars, mainVars, nonScreenVars>>

PreviousPage ==
  /\ getCanPreviousPage
  /\ pageIndex' = pageIndex - 1
  /\ UNCHANGED <<tableData, globalFilter, sorting>>
  /\ UNCHANGED <<couponVars, mainVars, nonScreenVars>>

(***************************************************************************)
(* Categories screen (src/unnamed/part_005)                                *)
(***************************************************************************)

\* rows the backend starts with, requests that may be in flight together,
\* rows the screen may create
NumCategories == 2
MaxMainCalls == 2
MaxCreates == 1

CategoryNames == {"", "Cleaning"}
Statuses == {"Active", "inActive"}

EmptyFormData ==
  [category |-> "", subCategory |-> "", icon |-> "", path |-> "",
   status |-> "Active"]

RowOf(id, form) == [id |-> id, category |-> form.category, status |-> form.status]

idsOf(rows) == {rows[i].id : i \in 1..Len(rows)}

\* the screen shows the form and the table only when it is neither loading
\* nor showing an error
mainShown == ~dataLoading /\ dataError = NULL

MainCall(kind, id) ==
  [kind |-> kind, id |-> id, data |-> mainData, formData |-> formData]

MainFresh ==
  /\ mainData = << >>
  /\ dataLoading = TRUE
  /\ dataError = NULL
  /\ formData = EmptyFormData
  /\ mainCalls = <<[kind |-> "fetch", id |-> 0, data |-> << >>,
                    formData |-> EmptyFormData]>>
  /\ nextMainId = NumCategories + 1
  /\ mainOp = "init"

MainIdle ==
  /\ mainData = << >>
  /\ dataLoading = TRUE
  /\ dataError = NULL
  /\ formData = EmptyFormData
  /\ mainCalls = << >>
  /\ serverMain = << >>
  /\ nextMainId = 1
  /\ mainOp = "none"

mainMessage(m, fallback) == IF m = NULL THEN fallback ELSE m

MainFailures == {NULL, "Service not found"}

MainFetchResolve(i) ==
  /\ i \in 1..Len(mainCalls)
  /\ mainCalls[i].kind = "fetch"
  /\ mainData' = serverMain
  /\ dataLoading' = FALSE
  /\ mainCalls' = removeAt(mainCalls, i)
  /\ mainOp' = "fetch_ok"
  /\ UNCHANGED <<dataError, formData, serverMain, nextMainId>>
  /\ UNCHANGED <<couponVars, tableVars, nonScreenVars>>

MainFetchReject(i, m) ==
  /\ i \in 1..Len(mainCalls)
  /\ mainCalls[i].kind = "fetch"
  /\ dataError' = mainMessage(m, "Failed to fetch data")
  /\ dataLoading' = FALSE
  /\ mainCalls' = removeAt(mainCalls, i)
  /\ mainOp' = "fetch_failed"
  /\ UNCHANGED <<mainData, formData, serverMain, nextMainId>>
  /\ UNCHANGED <<couponVars, tableVars, nonScreenVars>>

HandleInputChange(name, value) ==
  /\ mainShown
  /\ formData' = [formData EXCEPT ![name] = value]
  /\ formData' # formData
  /\ mainOp' = "input"
  /\ UNCHANGED <<mainData, dataLoading, dataError, mainCalls,
                 serverMain, nextMainId>>
  /\ UNCHANGED <<couponVars, tableVars, nonScreenVars>>

HandleCreate ==
  /\ mainShown
  /\ formData.category # ""
  /\ Len(mainCalls) < MaxMainCalls
  /\ mainCalls' = Append(mainCalls, MainCall("create", 0))
  /\ mainOp' = "create"
  /\ UNCHANGED <<mainData, dataLoading, dataError, formData,
                 serverMain, nextMainId>>
  /\ UNCHANGED <<couponVars, tableVars, nonScreenVars>>

\* setData([response.data.service, ...data]) with the data of the render
\* that sent the request
createdData(call, row) == <<row>> \o call.data

CreateResolve(i) ==
  /\ i \in 1..Len(mainCalls)
  /\ mainCalls[i].kind = "create"
  /\ nextMainId <= NumCategories + MaxCreates
  /\ LET row == RowOf(nextMainId, mainCalls[i].formData)
     IN /\ serverMain' = <<row>> \o serverMain
        /\ mainData' = createdData(mainCalls[i], row)
  /\ nextMainId' = nextMainId + 1
  /\ formData' = EmptyFormData
  /\ mainCalls' = removeAt(mainCalls, i)
  /\ mainOp' = "create_ok"
  /\ UNCHANGED <<dataLoading, dataError>>
  /\ UNCHANGED <<couponVars, tableVars, nonScreenVars>>

HandleDelete(i) ==
  /\ mainShown
  /\ i \in 1..Len(mainData)
  /\ mainData[i].status # "inActive"
  /\ Len(mainCalls) < MaxMainCalls
  /\ mainCalls' = Append(mainCalls, MainCall("delete", mainData[i].id))
  /\ mainOp' = "delete"
  /\ UNCHANGED <<mainData, dataLoading, dataError, formData,
                 serverMain, nextMainId>>
  /\ UNCHANGED <<couponVars, tableVars, nonScreenVars>>

withoutId(rows, id) == SelectSeq(rows, LAMBDA r : r.id # id)

\* setData(data.filter(item => item.id !== id)) with the data of the
\* render that sent the request
deletedData(call) == withoutId(call.data, call.id)

DeleteResolve(i) ==
  /\ i \in 1..Len(mainCalls)
  /\ mainCalls[i].kind = "delete"
  /\ mainCalls[i].id \in idsOf(serverMain)
  /\ serverMain' = withoutId(serverMain, mainCalls[i].id)
  /\ mainData' = deletedData(mainCalls[i])
  /\ mainCalls' = removeAt(mainCalls, i)
  /\ mainOp' = "delete_ok"
  /\ UNCHANGED <<dataLoading, dataError, formData, nextMainId>>
  /\ UNCHANGED <<couponVars, tableVars, nonScreenVars>>

mainFallback(kind) ==
  CASE kind = "create" -> "Failed to create service"
    [] OTHER -> "Failed to delete service"

MainReject(i, m) ==
  /\ i \in 1..Len(mainCalls)
  /\ mainCalls[i].kind \in {"create", "delete"}
  /\ dataError' = mainMessage(m, mainFallback(mainCalls[i].kind))
  /\ mainCalls' = removeAt(mainCalls, i)
  /\ mainOp' = "failed"
  /\ UNCHANGED <<mainData, dataLoading, formData, serverMain,
                 nextMainId>>
  /\ UNCHANGED <<couponVars, tableVars, nonScreenVars>>

ScreensIdle == CouponIdle /\ TableIdle /\ MainIdle

vars == <<authVars, feeVars, orderVars, catVars, offVars, screenVars>>

(***************************************************************************)
(* Specifications                                                          *)
(***************************************************************************)
\* a session that passed the route gate, for the screens behind it
LoggedIn ==
  /\ token = TokenNames[1]
  /\ currentAdmin = <<[id |-> AdminIds[1], status |-> "active"]>>
  /\ loading = FALSE
  /\ localStorage = setItem(setItem(EmptyStorage, "admin_token", TokenNames[1]),
                            "admin_user",
                            JSONstringify([id |-> AdminIds[1], status |-> "active"]))
  /\ effectPending = FALSE
  /\ verifyReq = NULL
  /\ path = "/dashboard"
  /\ isLoading = FALSE
  /\ formReq = "none"
  /\ activeTab = "login"
  /\ toast = NULL
  /\ lastOp = Op("login_ok", TokenNames[1], <<[id |-> AdminIds[1], status |-> "active"]>>)

\* the session store, the router and the login form
Init ==
  /\ Fresh(EmptyStorage, "/") /\ FeeIdle /\ OrderIdle /\ CategoryIdle /\ OfferingIdle
  /\ ScreensIdle

Next ==
  \/ MountEffect
  \/ \E u \in AdminUser : VerifyResolve(u)
  \/ VerifyReject
  \/ Logout
  \/ LoginSubmit
  \/ \E t \in Tokens, u \in AdminUser : LoginResolve(t, u)
  \/ \E e \in AxiosErrors : LoginReject(e)
  \/ SignupSubmit
  \/ SignupResolve
  \/ \E e \in AxiosErrors : SignupReject(e)
  \/ \E t \in {"login", "signup"} : SwitchTab(t)
  \/ RouterNavigate
  \/ \E p \in Paths : Reload(p)

Spec == Init /\ [][Next]_vars

\* calculateConvenienceFee applied to every bounded item list
FeeInit ==
  /\ LoggedIn
  /\ ScreensIdle
  /\ OrderIdle
  /\ CategoryIdle
  /\ OfferingIdle
  /\ feeItems \in FeeItemLists
  /\ feeResult = NotComputed

FeeNext == ComputeFee

FeeSpec == FeeInit /\ [][FeeNext]_vars

\* the order editor against its backend
OrderInit ==
  /\ LoggedIn
  /\ ScreensIdle
  /\ FeeIdle
  /\ CategoryIdle
  /\ OfferingIdle
  /\ OrderFresh(InitialServerItems)

OrderNext ==
  \/ FetchDataResolve
  \/ \E m \in OrderFailures : FetchDataReject(m)
  \/ \E i \in 1..Len(ServerOrders), mode \in {"view", "edit"} : HandleOpenModal(i, mode)
  \/ \E c \in calls, out \in Outcomes : OpenItemsResponse(c, out)
  \/ HandleCloseModal
  \/ EditBooking
  \/ \E i \in 1..Len(Catalog) : SelectService(Catalog[i].service_code)
  \/ \E b \in {"1BHK"} : SelectBhk(b)
  \/ HandleAddItem
  \/ \E k \in 1..(1 + MaxAdds) : HandleRemoveItem(k)
  \/ \E c \in calls, out \in Outcomes : AddResponse(c, out)
  \/ \E c \in calls, out \in Outcomes : RemoveResponse(c, out)
  \/ \E c \in calls, out \in Outcomes : ReloadItemsResponse(c, out)
  \/ \E c \in calls, out \in Outcomes : ReloadOrdersResponse(c, out)

OrderSpec == OrderInit /\ [][OrderNext]_vars

\* the order editor's header form: open, edit, type, save, close
EditInit == OrderInit

EditNext ==
  \/ FetchDataResolve
  \/ \E m \in OrderFailures : FetchDataReject(m)
  \/ \E i \in 1..Len(ServerOrders), mode \in {"view", "edit"} : HandleOpenModal(i, mode)
  \/ \E c \in calls, out \in Outcomes : OpenItemsResponse(c, out)
  \/ HandleCloseModal
  \/ EditBooking
  \/ \E v \in TypedNames : TypeFirstName(v)
  \/ \E v \in StatusOptions : SelectStatus(v)
  \/ HandleEditOrder
  \/ \E c \in calls, shape \in ResponseShapes : SaveResolve(c, shape)
  \/ \E c \in calls, m \in OrderFailures : SaveReject(c, m)

EditSpec == EditInit /\ [][EditNext]_vars

\* the add-item sub-form of an order that is open for editing
QuantityInit ==
  /\ LoggedIn
  /\ ScreensIdle
  /\ FeeIdle
  /\ CategoryIdle
  /\ OfferingIdle
  /\ orders = ServerOrders
  /\ services = Catalog
  /\ histLoading = FALSE
  /\ error = NULL
  /\ selectedOrder = <<ServerOrders[1]>>
  /\ orderItems = itemsWithCategory(InitialServerItems[ServerOrders[1].order_id], Catalog)
  /\ newItem = EmptyNewItem
  /\ modalState = [isOpen |-> TRUE, mode |-> "edit"]
  /\ orderToast = NULL
  /\ calls = {}
  /\ serverItems = InitialServerItems
  /\ nextItemId = Len(ServerOrders) + 1
  /\ orderOp = OrderOp("open_loaded", ServerOrders[1].order_id, FALSE)
  /\ isSaving = FALSE
  /\ serverOrders = ServerOrders
  /\ callLimit = MaxCalls

QuantityNext ==
  \/ \E q \in QuantityTexts : SetQuantity(q)
  \/ \E i \in 1..Len(Catalog) : SelectService(Catalog[i].service_code)
  \/ \E b \in {"1BHK"} : SelectBhk(b)
  \/ HandleAddItem
  \/ \E c \in calls, out \in Outcomes : AddResponse(c, out)
  \/ \E c \in calls, out \in Outcomes : ReloadItemsResponse(c, out)
  \/ \E c \in calls, out \in Outcomes : ReloadOrdersResponse(c, out)

QuantitySpec == QuantityInit /\ [][QuantityNext]_vars

\* opening and closing the editor, with up to MaxOpens item loads in flight
RaceInit ==
  /\ LoggedIn
  /\ ScreensIdle
  /\ FeeIdle
  /\ CategoryIdle
  /\ OfferingIdle
  /\ orders = << >>
  /\ services = << >>
  /\ histLoading = TRUE
  /\ error = NULL
  /\ selectedOrder = NoOrder
  /\ orderItems = << >>
  /\ newItem = EmptyNewItem
  /\ modalState = ClosedModal
  /\ orderToast = NULL
  /\ calls = {}
  /\ serverItems = InitialServerItems
  /\ nextItemId = Len(ServerOrders) + 1
  /\ orderOp = OrderOp("construct", 0, FALSE)
  /\ isSaving = FALSE
  /\ serverOrders = ServerOrders
  /\ callLimit = MaxOpens

RaceNext ==
  \/ FetchDataResolve
  \/ \E i \in 1..Len(ServerOrders), mode \in {"view", "edit"} : HandleOpenModal(i, mode)
  \/ \E c \in calls, out \in Outcomes : OpenItemsResponse(c, out)
  \/ HandleCloseModal
  \/ EditBooking

RaceSpec == RaceInit /\ [][RaceNext]_vars

\* the Categories screen from its mount, over every bounded backend list
MainInit ==
  /\ LoggedIn
  /\ FeeIdle
  /\ OrderIdle
  /\ CategoryIdle
  /\ OfferingIdle
  /\ CouponIdle
  /\ TableIdle
  /\ MainFresh
  /\ \E st \in [1..NumCategories -> Statuses] :
       serverMain = [k \in 1..NumCategories |->
                       [id |-> k, category |-> "Cleaning", status |-> st[k]]]

MainNext ==
  \/ \E i \in 1..MaxMainCalls : MainFetchResolve(i)
  \/ \E i \in 1..MaxMainCalls, m \in MainFailures : MainFetchReject(i, m)
  \/ \E v \in CategoryNames : HandleInputChange("category", v)
  \/ HandleCreate
  \/ \E i \in 1..MaxMainCalls : CreateResolve(i)
  \/ \E i \in 1..(NumCategories + MaxCreates) : HandleDelete(i)
  \/ \E i \in 1..MaxMainCalls : DeleteResolve(i)
  \/ \E i \in 1..MaxMainCalls, m \in MainFailures : MainReject(i, m)

MainSpec == MainInit /\ [][MainNext]_vars

\* fetchOrderItems' category lookup over every bounded catalog
CategoryInit ==
  /\ LoggedIn
  /\ ScreensIdle
  /\ FeeIdle
  /\ OrderIdle
  /\ OfferingIdle
  /\ catServices \in CatalogLists
  /\ catItems \in CatItems
  /\ catResult = NoResult

CategoryNext == ResolveCategories

CategorySpec == CategoryInit /\ [][CategoryNext]_vars

\* what the backend may hold in a nested field of an offering
StoredKinds == {"absent", "empty", "unparsable", "not_array", "empty_array", "array"}

sampleRow(sec) ==
  CASE sec = "features" -> [desc |-> "Quick", icon |-> "", label |-> "Fast"]
    [] sec = "requirements" -> [icon |-> "", label |-> "Fast"]
    [] sec = "exclusions" -> [icon |-> "", label |-> "Safe"]
    [] sec = "pricetable" -> [bhk |-> "1BHK", time |-> "2 hrs", price |-> "999"]

storedField(kind, sec) ==
  CASE kind = "absent" -> NoField
    [] kind = "empty" -> << << >> >>
    [] kind = "unparsable" -> << <<"[", "{", quote("label")>> >>
    [] kind = "not_array" -> << <<"{", quote("label"), ":", quote("Fast"), "}">> >>
    [] kind = "empty_array" -> << <<"[", "]">> >>
    [] kind = "array" -> <<stringifyRows(<<sampleRow(sec)>>, SectionKeys(sec))>>

CategoryInputs == {<<"", "">>, <<CleaningCategory, "">>, <<CleaningCategory, "Full Home">>}

\* the rows of the offerings table: every kind of stored nested field, with
\* and without a required price table
StoredOfferings ==
  {[features |-> storedField(k, "features"),
    requirements |-> storedField(k, "requirements"),
    exclusions |-> storedField(k, "exclusions"),
    pricetable |-> storedField(k, "pricetable"),
    category |-> c[1], subCategory |-> c[2]] :
     k \in StoredKinds, c \in CategoryInputs}

\* the offering form: open for create or edit, rows added and removed
OfferingInit ==
  /\ LoggedIn
  /\ ScreensIdle
  /\ FeeIdle
  /\ OrderIdle
  /\ CategoryIdle
  /\ OffFresh

OfferingNext ==
  \/ OpenCreate
  \/ \E o \in StoredOfferings : OpenEdit(o)
  \/ CloseForm
  \/ \E sec \in Sections : AddRow(sec)
  \/ \E sec \in Sections, i \in 1..MaxRows : RemoveRow(sec, i)
  \/ \E c \in CategoryInputs : SetCategory(c[1], c[2])

OfferingSpec == OfferingInit /\ [][OfferingNext]_vars

\* rows the form can hold once the user has filled them in
FilledRows(sec) ==
  CASE sec = "features" ->
         [desc : {"", "Quick"}, icon : {""}, label : {"Fast", "Safe"}]
    [] sec = "requirements" -> [icon : {""}, label : {"Fast"}]
    [] sec = "exclusions" -> [icon : {""}, label : {"Safe"}]
    [] sec = "pricetable" -> [bhk : {"1BHK"}, time : {"2 hrs"}, price : {"999"}]

FilledLists(sec, least) == UNION {[1..n -> FilledRows(sec)] : n \in least..MaxRows}

\* a filled-in create form is submitted, stored, and loaded for editing
RoundTripInit ==
  /\ LoggedIn
  /\ ScreensIdle
  /\ FeeIdle
  /\ OrderIdle
  /\ CategoryIdle
  /\ isFormOpen = TRUE
  /\ editingOffering = NoOffering
  /\ features \in FilledLists("features", 1)
  /\ requirements \in FilledLists("requirements", 1)
  /\ exclusions \in FilledLists("exclusions", 1)
  /\ pricetable \in FilledLists("pricetable", 0)
  /\ category = (IF Len(pricetable) = 0 THEN "" ELSE CleaningCategory)
  /\ subCategory = (IF Len(pricetable) = 0 THEN "" ELSE "Full Home")
  /\ sent = << >>
  /\ offPending = << >>
  /\ storedOffering = NoOffering
  /\ offOp = "open_create"
  /\ offToast = NULL
  /\ offeringsStale = FALSE

RoundTripNext ==
  \/ SubmitOffering
  \/ \E i \in 1..MaxSubmits : SubmitResolve(i)
  \/ \E i \in 1..MaxSubmits, m \in OfferingFailures : SubmitReject(i, m)
  \/ CloseForm
  \/ Len(storedOffering) # 0 /\ OpenEdit(storedOffering[1])

RoundTripSpec == RoundTripInit /\ [][RoundTripNext]_vars

\* what the user types into a cell, and the cells that the schemas require
TypedCells == {"", "Fast"}
RequiredKeys == {"label", "bhk", "time", "price"}

\* the create form, without or with a price table, as the user fills it in
FillInit ==
  /\ LoggedIn
  /\ ScreensIdle
  /\ FeeIdle
  /\ OrderIdle
  /\ CategoryIdle
  /\ isFormOpen = TRUE
  /\ editingOffering = NoOffering
  /\ features = <<EmptyFeature>>
  /\ requirements = <<EmptyRequirement>>
  /\ exclusions = <<EmptyExclusion>>
  /\ \/ category = "" /\ subCategory = "" /\ pricetable = << >>
     \/ /\ category = CleaningCategory
        /\ subCategory = "Full Home"
        /\ pricetable = <<EmptyPriceTable>>
  /\ sent = << >>
  /\ offPending = << >>
  /\ storedOffering = NoOffering
  /\ offOp = "open_create"
  /\ offToast = NULL
  /\ offeringsStale = FALSE

FillNext ==
  \/ \E sec \in Sections, i \in 1..MaxRows, k \in RequiredKeys, v \in TypedCells :
       TypeCell(sec, i, k, v)
  \/ AddRow("features")
  \/ \E i \in 1..MaxRows : RemoveRow("features", i)
  \/ SubmitOffering

FillSpec == FillInit /\ [][FillNext]_vars

\* every form the user can have filled in
CouponForms ==
  [code : Codes, discount_type : DiscountTypes, discount_value : DiscountInputs,
   is_active : BOOLEAN]

\* couponSchema and the request bodies over every filled-in form, in the
\* create dialog or in the edit dialog of a stored coupon
CouponSchemaInit ==
  /\ LoggedIn
  /\ TableIdle
  /\ MainIdle
  /\ FeeIdle
  /\ OrderIdle
  /\ CategoryIdle
  /\ OfferingIdle
  /\ activeSection = "Add Coupons"
  /\ couponCalls = << >>
  /\ couponSent = << >>
  /\ couponsLoading = FALSE
  /\ couponToast = NULL
  /\ \/ /\ isCreateOpen = TRUE
        /\ isEditOpen = FALSE
        /\ editingCoupon = NoCoupon
        /\ createForm \in CouponForms
        /\ editForm = CouponDefaults
        /\ couponOp = "open_create"
     \/ /\ isCreateOpen = FALSE
        /\ isEditOpen = TRUE
        /\ editingCoupon \in {<<c>> : c \in StoredCoupons}
        /\ createForm = CouponDefaults
        /\ editForm \in CouponForms
        /\ couponOp = "open_edit"

CouponSchemaNext == CreateCoupon \/ UpdateCoupon

CouponSchemaSpec == CouponSchemaInit /\ [][CouponSchemaNext]_vars

\* what is typed into the fields of a coupon dialog
CouponTyped ==
  {<<"code", <<"a", "1">> >>, <<"discount_value", 0>>, <<"discount_value", 10000>>}

\* the two forms that submit to the backend from a dialog: the offering form,
\* filled in, with the Add Services section mounted, or the coupon dialogs
\* with the Add Coupons section mounted
FormsInit ==
  /\ LoggedIn
  /\ TableIdle
  /\ MainIdle
  /\ FeeIdle
  /\ OrderIdle
  /\ CategoryIdle
  /\ \/ /\ CouponIdle
        /\ isFormOpen = TRUE
        /\ editingOffering = NoOffering
        /\ features \in FilledLists("features", 1)
        /\ requirements = <<[icon |-> "", label |-> "Fast"]>>
        /\ exclusions = <<[icon |-> "", label |-> "Safe"]>>
        /\ pricetable = << >>
        /\ category = ""
        /\ subCategory = ""
        /\ sent = << >>
        /\ offPending = << >>
        /\ storedOffering = NoOffering
        /\ offOp = "open_create"
        /\ offToast = NULL
        /\ offeringsStale = FALSE
     \/ /\ OfferingIdle
        /\ activeSection = "Add Coupons"
        /\ CouponFresh

FormsNext ==
  \/ SubmitOffering
  \/ \E i \in 1..MaxSubmits : SubmitResolve(i)
  \/ \E i \in 1..MaxSubmits, m \in OfferingFailures : SubmitReject(i, m)
  \/ CloseForm
  \/ Len(storedOffering) # 0 /\ OpenEdit(storedOffering[1])
  \/ RefetchOfferings
  \/ OpenCreateDialog
  \/ \E c \in StoredCoupons : OpenEditModal(c)
  \/ CloseCouponDialog
  \/ \E t \in CouponTyped : SetCouponField(t[1], t[2])
  \/ CreateCoupon
  \/ UpdateCoupon
  \/ \E i \in 1..MaxCouponCalls : CouponSaveResolve(i)
  \/ \E i \in 1..MaxCouponCalls, m \in CouponFailures : CouponSaveReject(i, m)
  \/ \E i \in 1..MaxCouponCalls, out \in Outcomes : FetchCouponsDone(i, out)

FormsSpec == FormsInit /\ [][FormsNext]_vars

\* the generic table over data of every length up to MaxTableRows
TableInit ==
  /\ LoggedIn
  /\ FeeIdle
  /\ OrderIdle
  /\ CategoryIdle
  /\ OfferingIdle
  /\ CouponIdle
  /\ MainIdle
  /\ tableData \in {TableRows(n) : n \in 0..MaxTableRows}
  /\ globalFilter = << >>
  /\ sorting = "none"
  /\ pageIndex = 0

TableNext ==
  \/ \E f \in FilterTexts : SetGlobalFilter(f)
  \/ \E s \in SortingStates : SetSorting(s)
  \/ NextPage
  \/ PreviousPage

TableSpec == TableInit /\ [][TableNext]_vars

(***************************************************************************)
(* Properties of the session store and the route gate                      *)
(***************************************************************************)
SessionKeys == {"admin_token", "admin_user"}

\* the messages of the model that tell the user the account is not active
MentionsActivation(msg) == msg \in {InactiveMessage, "Admin account is not active"}

\* C1: a login answered 2xx with a user whose status is not "active" is
\* rejected with an error message that mentions the account is not active, and
\* sets neither the in-memory token nor the storage keys.
C1_InactiveLoginRejected ==
  [][lastOp'.name = "login_inactive" =>
       /\ MentionsActivation(toast')
       /\ UNCHANGED <<token, currentAdmin, localStorage>>]_vars

C3_LogoutClears ==
  lastOp.name = "logout" =>
    /\ token = NULL
    /\ currentAdmin = NullAdmin
    /\ DOMAIN localStorage \cap SessionKeys = {}
    /\ ~isAuthenticated

\* a logout of a session that held a token and a profile
C3_Witness ==
  /\ lastOp.name = "logout"
  /\ lastOp.token \in Tokens \ {""}
  /\ lastOp.user # NullAdmin

\* C4 (as stated): once loading is false and no login is awaiting the backend,
\* token is null exactly when admin_token is absent from storage, and otherwise
\* token and currentAdmin equal the stored admin_token and admin_user.
C4_MemoryEqualsStorage ==
  (~loading /\ formReq # "login") =>
    /\ token = NULL <=> "admin_token" \notin DOMAIN localStorage
    /\ token # NULL =>
         /\ token = getItem(localStorage, "admin_token")
         /\ "admin_user" \in DOMAIN localStorage
         /\ currentAdmin = <<JSONparse(localStorage["admin_user"])>>

\* C4 (amended): once loading is false and no login is awaiting the backend, a
\* null token goes with an absent or empty admin_token, an absent admin_token
\* goes with a null token, and a non-null token and currentAdmin equal the
\* stored admin_token and admin_user.
C4_MemoryEqualsStorageAmended ==
  (~loading /\ formReq # "login") =>
    /\ token = NULL => getItem(localStorage, "admin_token") \in {NULL, ""}
    /\ "admin_token" \notin DOMAIN localStorage => token = NULL
    /\ token # NULL =>
         /\ token = getItem(localStorage, "admin_token")
         /\ "admin_user" \in DOMAIN localStorage
         /\ currentAdmin = <<JSONparse(localStorage["admin_user"])>>

\* an initialisation that found an empty admin_token left by an earlier login
C4_Witness ==
  /\ lastOp.name = "no_session"
  /\ ~loading
  /\ token = NULL
  /\ getItem(localStorage, "admin_token") = ""

\* C5 (as stated): isAuthenticated is true iff the token is not null.
C5_AuthenticatedIffNotNull == isAuthenticated <=> token # NULL

\* C5 (amended): isAuthenticated is true iff the token is neither null nor the
\* empty string.
C5_AuthenticatedIffNonEmpty == isAuthenticated <=> (token # NULL /\ token # "")

\* a successful login whose token is the empty string
C5_Witness ==
  /\ lastOp.name = "login_ok"
  /\ token = ""
  /\ ~isAuthenticated

\* C6: signup, whether it succeeds or fails, leaves the token, currentAdmin and
\* both storage keys unchanged, and does not authenticate the caller.
C6_SignupFrame ==
  [][lastOp'.name \in {"signup_ok", "signup_failed"} =>
       /\ UNCHANGED <<token, currentAdmin, localStorage>>
       /\ (~isAuthenticated => ~isAuthenticated')]_vars

\* a signup that succeeded
C6_Witness ==
  /\ lastOp.name = "signup_ok"
  /\ toast = "Admin signup request submitted"
  /\ ~isAuthenticated

\* C7 (as stated): the Dashboard is rendered only if loading is false and the
\* token is non-null, the login page only if loading is false and the token is
\* null; neither is rendered while loading, and the dashboard is not rendered
\* after logout.
C7_RouteGating ==
  /\ Rendered = "Dashboard" => (~loading /\ token # NULL)
  /\ Rendered = "LoginPage" => (~loading /\ token = NULL)
  /\ loading => Rendered \notin {"Dashboard", "LoginPage"}
  /\ lastOp.name = "logout" => Rendered # "Dashboard"

\* C7 (amended): the Dashboard is rendered only if loading is false and the
\* token is a non-empty string, the login page only if loading is false and
\* the token is null or the empty string; neither is rendered while loading,
\* and the dashboard is not rendered after logout.
C7_RouteGatingAmended ==
  /\ Rendered = "Dashboard" => (~loading /\ token \notin {NULL, ""})
  /\ Rendered = "LoginPage" => (~loading /\ token \in {NULL, ""})
  /\ loading => Rendered \notin {"Dashboard", "LoginPage"}
  /\ lastOp.name = "logout" => Rendered # "Dashboard"

\* the dashboard on screen for a session restored from storage and verified
C7_Witness ==
  /\ Rendered = "Dashboard"
  /\ lastOp.name = "verify_ok"
  /\ token \in Tokens \ {""}

(***************************************************************************)
(* Properties of the fee and of the order editor                           *)
(***************************************************************************)
\* the sum of price * quantity over the items of a list that satisfy keep,
\* taken over the set of positions
RECURSIVE SumOver(_, _)
SumOver(items, positions) ==
  IF positions = {} THEN 0
  ELSE LET i == CHOOSE j \in positions : TRUE
       IN items[i].price * items[i].quantity + SumOver(items, positions \ {i})

CleaningPositions(items) ==
  {i \in 1..Len(items) : items[i].category = CleaningCategory}

\* the list without its items of another category
RECURSIVE OnlyCleaning(_)
OnlyCleaning(items) ==
  IF items = << >> THEN << >>
  ELSE (IF Head(items).category = CleaningCategory THEN <<Head(items)>> ELSE << >>)
         \o OnlyCleaning(Tail(items))

\* C8: the fee is 0 when the cleaning subtotal is 0, 39 when it is below 500,
\* 39 + 10 * floor(subtotal / 500) from 500 on (1200 gives 59), and items of
\* another category never change it.
C8_FeeFormula ==
  feeResult # NotComputed =>
    LET s == SumOver(feeItems, CleaningPositions(feeItems))
    IN /\ s = 0 => feeResult = 0
       /\ (0 < s /\ s < 500) => feeResult = 39
       /\ s >= 500 => feeResult = 39 + 10 * (s \div 500)
       /\ s = 1200 => feeResult = 59
       /\ feeResult = calculateConvenienceFee(OnlyCleaning(feeItems))

\* the fee of a list whose cleaning subtotal is 1200, next to another item
C8_Witness ==
  /\ feeResult = 59
  /\ SumOver(feeItems, CleaningPositions(feeItems)) = 1200
  /\ \E i \in 1..Len(feeItems) : feeItems[i].category = "Unknown"

\* C9: the displayed total is the sum of price * quantity over all loaded
\* items, whatever their category, plus the convenience fee of those items.
C9_DisplayedTotal ==
  calculateTotal =
    SumOver(orderItems, 1..Len(orderItems)) + calculateConvenienceFee(orderItems)

\* the editor showing a cleaning item next to an item of another category
C9_Witness ==
  /\ DialogShown("edit")
  /\ \E i \in 1..Len(orderItems) : orderItems[i].category = CleaningCategory
  /\ \E i \in 1..Len(orderItems) : orderItems[i].category # CleaningCategory
  /\ calculateConvenienceFee(orderItems) > 0

\* C10: when the only item of the order is removed (the DELETE succeeds) and
\* the item list is reloaded, the editor holds an empty item list, subtotal 0
\* and fee 0.
C10_LastItemRemoved ==
  (/\ orderOp.name = "remove_items_reloaded"
   /\ orderOp.wasLast
   /\ serverItems[orderOp.oid] = << >>) =>
    /\ orderItems = << >>
    /\ calculateSubtotal = 0
    /\ calculateConvenienceFee(orderItems) = 0
    /\ calculateTotal = 0

\* the reload after the removal of the only item, the editor still open on
\* that order
C10_Witness ==
  /\ orderOp.name = "remove_items_reloaded"
  /\ orderOp.wasLast
  /\ serverItems[orderOp.oid] = << >>
  /\ DialogShown("edit")
  /\ selectedOrder[1].order_id = orderOp.oid
  /\ orderItems = << >>

(***************************************************************************)
(* Properties of the order editor's modes, save and item requests          *)
(***************************************************************************)
\* closed, viewing or editing
editorState(m) ==
  IF ~m.isOpen THEN "closed" ELSE IF m.mode = "view" THEN "viewing" ELSE "editing"

\* this step is the answer to a request that opens the dialog in `mode`
OpenAnswered(mode) ==
  \E c \in calls : c.kind = "open" /\ c.mode = mode /\ c \notin calls'

\* C11 (as stated): the editor's only transitions are closed -> viewing,
\* viewing -> editing, editing -> viewing (a save succeeded), viewing -> closed
\* and editing -> closed; editing is entered from viewing only.
C11_Transitions ==
  [][editorState(modalState) # editorState(modalState') =>
       \/ <<editorState(modalState), editorState(modalState')>> \in
            {<<"closed", "viewing">>, <<"viewing", "editing">>,
             <<"viewing", "closed">>, <<"editing", "closed">>}
       \/ /\ <<editorState(modalState), editorState(modalState')>> =
               <<"editing", "viewing">>
          /\ orderOp'.name = "save_ok"]_vars

\* C11 (amended): the dialog closes only by handleCloseModal, which also
\* clears the selected order; it enters viewing only when a request to open
\* in view mode is answered or a save succeeds; it enters editing only when a
\* request to open in edit mode is answered (the Edit button of a table row,
\* from closed) or by Edit Booking from viewing.
C11_TransitionsAmended ==
  [][editorState(modalState) # editorState(modalState') =>
       \/ /\ editorState(modalState') = "closed"
          /\ selectedOrder' = NoOrder
          /\ calls' = calls
       \/ /\ editorState(modalState') = "viewing"
          /\ OpenAnswered("view") \/ orderOp'.name = "save_ok"
       \/ /\ editorState(modalState') = "editing"
          /\ \/ OpenAnswered("edit")
             \/ editorState(modalState) = "viewing" /\ calls' = calls]_vars

\* the dialog was opened on a row's Edit button, straight into editing
C11_Witness ==
  /\ editorState(modalState) = "editing"
  /\ orderOp.name = "open_loaded"
  /\ selectedOrder # NoOrder

\* C12: a save sends one PUT for the selected order whose body has the header
\* fields only; when it succeeds the orders entry with that order_id is the
\* old entry overridden by the returned order's fields, the other entries are
\* unchanged and the mode is viewing.
C12_SaveMerges ==
  [][/\ orderOp'.name = "save_sent" =>
          \E c \in calls' :
            /\ calls' = calls \cup {c} /\ c \notin calls
            /\ \A d \in calls : d.kind # "save"
            /\ c.kind = "save"
            /\ c.oid = selectedOrder[1].order_id
            /\ DOMAIN c.payload = HeaderFields
            /\ \A k \in HeaderFields : c.payload[k] = selectedOrder[1][k]
     /\ orderOp'.name = "save_ok" =>
          \E c \in calls, shape \in ResponseShapes :
            LET returned == responseOrder(shape, serverOrders', c.oid, c.payload)
            IN /\ c.kind = "save" /\ c \notin calls'
               /\ Len(orders') = Len(orders)
               /\ \A i \in 1..Len(orders) :
                    IF orders[i].order_id = c.oid
                    THEN /\ DOMAIN orders'[i] = DOMAIN orders[i] \cup DOMAIN returned
                         /\ \A k \in DOMAIN returned : orders'[i][k] = returned[k]
                         /\ \A k \in DOMAIN orders[i] \ DOMAIN returned :
                              orders'[i][k] = orders[i][k]
                    ELSE orders'[i] = orders[i]
               /\ editorState(modalState') = "viewing"]_vars

\* a save of a retyped first name succeeded
C12_Witness ==
  /\ orderOp.name = "save_ok"
  /\ editorState(modalState) = "viewing"
  /\ \E i \in 1..Len(orders) :
       /\ orders[i].order_id = orderOp.oid
       /\ orders[i].first_name \in TypedNames
       /\ orders[i].items = ServerOrders[i].items
  /\ \E i \in 1..Len(orders) :
       orders[i].order_id # orderOp.oid /\ orders[i] = ServerOrders[i]

\* Save Changes can be pressed
SaveAvailable == DialogShown("edit") /\ ~isSaving

\* C13: when the save request fails the editor remains in editing mode with
\* the same order selected and its fields as typed, the orders list is
\* unchanged, the error is notified, and the saving flag is false again so
\* that the save can be attempted again.
C13_SaveFailureKeepsEditing ==
  [][orderOp'.name = "save_failed" /\ DialogShown("edit") =>
       /\ UNCHANGED <<modalState, selectedOrder, orders>>
       /\ orderToast' # NULL
       /\ isSaving' = FALSE
       /\ SaveAvailable']_vars

FailedOps ==
  {"open_failed", "add_failed", "remove_failed", "save_failed",
   "add_items_reload_failed", "remove_items_reload_failed"}

\* C14: after a network failure of load items, add item, remove item or save,
\* the failure is notified and the dialog is still displayed, open in the mode
\* it was in (for a load: the mode it was asked to open in).
C14_DialogSurvivesFailure ==
  [][orderOp'.name \in FailedOps =>
       /\ orderToast' # NULL
       /\ Interactive'
       /\ modalState'.isOpen
       /\ orderOp'.name # "open_failed" => modalState' = modalState]_vars

\* C15: an add-item request is sent only when an order is selected, a service
\* code is selected and, if that service has a price table, a BHK tier is
\* selected too.
C15_AddOnlyWhenComplete ==
  [][(\E c \in calls' : c \notin calls /\ c.kind = "add" /\ c.stage = "mutate") =>
       /\ selectedOrder # NoOrder
       /\ newItem.service_code # NoService
       /\ \A i \in 1..Len(services) :
            (services[i].service_code = newItem.service_code
               /\ services[i].hasPricetable) => newItem.bhk # ""
       /\ \A c \in calls' \ calls :
            /\ c.oid = selectedOrder[1].order_id
            /\ c.payload.service_code = newItem.service_code
            /\ c.payload.bhk = newItem.bhk]_vars

\* an add-item request for a service with a price table is in flight
C15_Witness ==
  \E c \in calls :
    /\ c.kind = "add" /\ c.stage = "mutate"
    /\ c.payload.bhk # ""
    /\ \E i \in 1..Len(services) :
         services[i].service_code = c.payload.service_code /\ services[i].hasPricetable

SuccessToasts == {"Item added successfully", "Item removed successfully"}

ReloadOps ==
  {k \o r : k \in {"add", "remove"},
            r \in {"_items_reloaded", "_items_reload_failed",
                   "_orders_reloaded", "_orders_reload_failed"}}

\* C16: for add-item and remove-item, both reloads are issued, and only when
\* the POST or DELETE has succeeded; the success notification comes when both
\* reloads have finished; when the POST or DELETE fails no reload is issued
\* and the item list and the order list are unchanged.
C16_ReloadAfterMutation ==
  [][/\ (\E c \in calls' : c \notin calls /\ c.stage = "reload"
                            /\ ~c.itemsDone /\ ~c.ordersDone) <=>
          orderOp'.name \in {"add_posted", "remove_deleted"}
     /\ orderOp'.name \in {"add_posted", "remove_deleted"} =>
          /\ \E c \in calls : c.stage = "mutate" /\ c \notin calls'
                              /\ c.kind \in {"add", "remove"}
          /\ serverItems' # serverItems
     /\ orderOp'.name \in ReloadOps =>
          \E c \in calls : c.stage = "reload" /\ c \notin calls'
     /\ orderToast' \in SuccessToasts =>
          \E c \in calls :
            /\ c.stage = "reload" /\ c \notin calls'
            /\ c.itemsDone \/ c.ordersDone
            /\ orderToast' = successToast(c)
            /\ calls' = calls \ {c}
     /\ orderOp'.name \in {"add_failed", "remove_failed"} =>
          /\ UNCHANGED <<orderItems, orders, serverItems>>
          /\ calls' \subseteq calls]_vars

\* an item was added and both reloads have finished
C16_Witness ==
  /\ orderToast = "Item added successfully"
  /\ orderOp.name \in {"add_items_reloaded", "add_orders_reloaded"}
  /\ calls = {}
  /\ Len(orderItems) = 2

\* the positions of the catalog whose service code is a prefix of the product
PrefixHits(svcs, pid) == {i \in 1..Len(svcs) : startsWith(pid, svcs[i].service_code)}

FirstHit(svcs, pid) == CHOOSE i \in PrefixHits(svcs, pid) : \A j \in PrefixHits(svcs, pid) : i <= j

\* C17 (as stated): each loaded item gets the category of the first catalog
\* service whose code is a prefix of its product code, "Unknown" when there is
\* no such service.
C17_CategoryByPrefix ==
  catResult # NoResult =>
    /\ Len(catResult) = Len(catItems)
    /\ \A k \in 1..Len(catItems) :
         LET pid == catItems[k].product_id
         IN catResult[k].category =
              IF PrefixHits(catServices, pid) = {} THEN "Unknown"
              ELSE catServices[FirstHit(catServices, pid)].category

\* C17 (amended): ... "Unknown" also when that first service has an empty
\* category; the other fields of the item are kept.
C17_CategoryByPrefixAmended ==
  catResult # NoResult =>
    /\ Len(catResult) = Len(catItems)
    /\ \A k \in 1..Len(catItems) :
         LET pid == catItems[k].product_id
         IN /\ catResult[k].category =
                 IF PrefixHits(catServices, pid) = {} THEN "Unknown"
                 ELSE IF catServices[FirstHit(catServices, pid)].category = ""
                      THEN "Unknown"
                      ELSE catServices[FirstHit(catServices, pid)].category
            /\ catResult[k].product_id = pid
            /\ catResult[k].order_item_id = catItems[k].order_item_id

\* two services of different categories match the product; the first one wins
C17_Witness ==
  /\ catResult # NoResult
  /\ Cardinality(PrefixHits(catServices, catItems[1].product_id)) = 2
  /\ catServices[1].category = "Pest Control"
  /\ catServices[2].category = CleaningCategory
  /\ catResult[1].category = "Pest Control"

\* C18: every add-item request carries a quantity that is an integer >= 1,
\* whatever text the quantity field holds.
C18_PositiveQuantity ==
  \A c \in calls :
    c.kind = "add" => c.payload.quantity # NaN /\ c.payload.quantity >= 1

(***************************************************************************)
(* Properties of the offering form                                         *)
(***************************************************************************)
\* the number of rows of a section that are on screen
shownRows(sec) == IF sectionShown(sec) THEN Len(rowsOf(sec)) ELSE 0

\* C19 (as stated): while the form is open, in create or edit mode and after
\* any adds and removes of rows, each of features, requirements, exclusions
\* and price table shows at least one row.
C19_EverySectionHasRow ==
  isFormOpen => \A sec \in Sections : shownRows(sec) >= 1

\* C19 (amended): while the form is open, features, requirements and
\* exclusions show at least one row each; the price table shows at least one
\* row when the category is "Cleaning Services" and the sub category is
\* "Full Home" or "Empty Home", and none otherwise.
C19_EverySectionHasRowAmended ==
  isFormOpen =>
    /\ \A sec \in Sections \ {"pricetable"} : shownRows(sec) >= 1
    /\ IF priceTableRequired(category, subCategory)
       THEN shownRows("pricetable") >= 1
       ELSE shownRows("pricetable") = 0

\* an offering whose stored fields are empty arrays is open for editing, its
\* price table required
C19_Witness ==
  /\ isFormOpen
  /\ offOp = "open_edit"
  /\ editingOffering[1].features = storedField("empty_array", "features")
  /\ editingOffering[1].pricetable = storedField("empty_array", "pricetable")
  /\ priceTableRequired(category, subCategory)
  /\ features = <<EmptyFeature>>
  /\ pricetable = <<EmptyPriceTable>>

\* the form shows the offering that the last submitted request created
LoadedAfterSubmit ==
  /\ isFormOpen
  /\ offOp = "open_edit"
  /\ Len(sent) # 0
  /\ editingOffering = <<sent[1].body>>

\* C20 (as stated): every non-empty section submitted goes out as a JSON
\* string, and loading the stored offering gives an array of the same length
\* whose records equal the submitted ones: same keys, same values, same order.
C20_RoundTrip ==
  LoadedAfterSubmit =>
    \A sec \in Sections :
      LET vals == sent[1].values[sec]
          rows == rowsOf(sec)
      IN Len(vals) >= 1 =>
           /\ Len(sent[1].body[sec]) = 1
           /\ JSONparseText(sent[1].body[sec][1]).kind = "array"
           /\ Len(rows) = Len(vals)
           /\ \A i \in 1..Len(vals) :
                /\ DOMAIN rows[i] = DOMAIN vals[i]
                /\ \A k \in DOMAIN vals[i] : rows[i][k] = vals[i][k]

\* C20 (amended): ... whose records hold every submitted key with its
\* submitted value, in the same order, and also the keys of the other
\* sections' rows with the value "".
C20_RoundTripAmended ==
  LoadedAfterSubmit =>
    \A sec \in Sections :
      LET vals == sent[1].values[sec]
          rows == rowsOf(sec)
      IN Len(vals) >= 1 =>
           /\ Len(sent[1].body[sec]) = 1
           /\ JSONparseText(sent[1].body[sec][1]).kind = "array"
           /\ Len(rows) = Len(vals)
           /\ \A i \in 1..Len(vals) :
                /\ DOMAIN vals[i] = keySet(sec)
                /\ DOMAIN rows[i] = RowKeys
                /\ \A k \in keySet(sec) : rows[i][k] = vals[i][k]
                /\ \A k \in RowKeys \ keySet(sec) : rows[i][k] = ""

\* two different features and a price table went out and came back
C20_Witness ==
  /\ LoadedAfterSubmit
  /\ Len(features) = 2
  /\ features[1].label # features[2].label
  /\ features[1].desc = "Quick"
  /\ Len(pricetable) >= 1

(***************************************************************************)
(* Properties of the offering form's submission                            *)
(***************************************************************************)
\* C27 (as stated): the submit button is disabled while a create/update
\* request is in flight, so at most one request issued from the open form is
\* in flight at any time.
C27_OneRequestInFlight ==
  /\ Len(offPending) # 0 => submitDisabled
  /\ Len(offPending) <= 1

\* the cells of a section that its schema requires to be non-empty
requiredOf(sec) == keySet(sec) \cap RequiredKeys

\* a field of a request body is absent, or the JSON text of an array whose
\* records have every required cell non-empty
FieldFilled(field, sec) ==
  \/ field = NoField
  \/ /\ Len(field) = 1
     /\ LET parsed == JSONparseText(field[1])
        IN /\ parsed.kind = "array"
           /\ Len(parsed.rows) >= 1
           /\ \A i \in 1..Len(parsed.rows), k \in requiredOf(sec) :
                /\ k \in DOMAIN parsed.rows[i]
                /\ parsed.rows[i][k] \notin {NULL, ""}

\* C29: a create/update request is sent only from a form none of whose rows
\* has an empty label (an empty bhk, time or price for the price table), rows
\* of a hidden price table included; every field of the request is absent or
\* a JSON array whose records have these cells non-empty.
C29_NoEmptyRowSubmitted ==
  [][Len(offPending') > Len(offPending) =>
       /\ \A sec \in Sections :
            \A i \in 1..Len(rowsOf(sec)), k \in requiredOf(sec) :
              rowsOf(sec)[i][k] \notin {NULL, ""}
       /\ \A sec \in Sections : FieldFilled(sent'[1].body[sec], sec)
       /\ offPending'[Len(offPending')].body = sent'[1].body]_vars

\* a request went out from a form with an added feature row and a price
\* table, all of them filled in after they were shown empty
C29_Witness ==
  /\ offOp = "submit"
  /\ Len(features) = 2
  /\ Len(pricetable) = 1
  /\ Len(sent[1].body.features) = 1
  /\ Len(sent[1].body.pricetable) = 1

(***************************************************************************)
(* Properties of the coupon requests and of the two submitting dialogs     *)
(***************************************************************************)
\* C22 (as stated): every create or update request carries a code equal to
\* its own upper-casing, a discount type that is percentage or fixed, and a
\* discount value that is greater than 0 and has at most two decimals.
C22_CouponRequestWellFormed ==
  Len(couponSent) # 0 =>
    /\ couponSent[1].code = toUpperCase(couponSent[1].code)
    /\ couponSent[1].discount_type \in DiscountTypes
    /\ couponSent[1].discount_value > 0
    /\ couponSent[1].discount_value % 10 = 0

\* the reloads of the coupon list that are in flight
fetchesIn(cs) == {i \in 1..Len(cs) : cs[i] = "fetch"}

offeringForm == <<features, requirements, exclusions, pricetable, category, subCategory>>

\* C21: a step closes the offering form or a coupon dialog only if it is the
\* user's close or the success of a request; the success of a request closes
\* the dialog of its form and invalidates / reloads the list; the failure of
\* a request raises a notification and leaves the dialogs, the values of the
\* forms and the list's query as they were.
C21_ClosedIffSucceeded ==
  [][/\ Len(offPending') < Len(offPending) => offOp' \in {"submit_ok", "submit_failed"}
     /\ isFormOpen /\ ~isFormOpen' => offOp' \in {"close", "submit_ok"}
     /\ offOp' = "submit_ok" =>
          /\ Len(offPending') < Len(offPending)
          /\ ~isFormOpen'
          /\ offeringsStale'
          /\ offToast' \in {OfferingSaved("create"), OfferingSaved("update")}
     /\ offOp' = "submit_failed" =>
          /\ Len(offPending') < Len(offPending)
          /\ offToast' # NULL
          /\ UNCHANGED <<isFormOpen, offeringForm, offeringsStale, editingOffering>>
     /\ offOp' = "submit" => UNCHANGED <<isFormOpen, offeringForm, offeringsStale>>
     /\ (isCreateOpen /\ ~isCreateOpen') \/ (isEditOpen /\ ~isEditOpen') =>
          couponOp' \in {"close", "create_ok", "update_ok"}
     /\ couponOp' = "create_ok" =>
          /\ ~isCreateOpen'
          /\ Cardinality(fetchesIn(couponCalls')) = Cardinality(fetchesIn(couponCalls)) + 1
          /\ couponToast' = "Coupon created successfully!"
     /\ couponOp' = "update_ok" =>
          /\ ~isEditOpen'
          /\ Cardinality(fetchesIn(couponCalls')) = Cardinality(fetchesIn(couponCalls)) + 1
          /\ couponToast' = "Coupon updated successfully!"
     /\ couponOp' \in {"create_failed", "update_failed"} =>
          /\ Len(couponCalls') < Len(couponCalls)
          /\ couponToast' # NULL
          /\ Cardinality(fetchesIn(couponCalls')) = Cardinality(fetchesIn(couponCalls))
          /\ UNCHANGED <<isCreateOpen, isEditOpen, createForm, editForm, editingCoupon,
                         couponsLoading>>
     /\ couponOp' \in {"create_sent", "update_sent"} =>
          UNCHANGED <<isCreateOpen, isEditOpen, createForm, editForm>>]_vars

\* a create request for a coupon the user typed in has failed and the dialog
\* is still open on what was typed
C21_Witness ==
  /\ couponOp = "create_failed"
  /\ isCreateOpen
  /\ createForm.code = <<"a", "1">>
  /\ createForm.discount_value = 10000
  /\ couponSent[1].code = <<"A", "1">>
  /\ couponToast = "Failed to create coupon."

(***************************************************************************)
(* Properties of the generic table                                         *)
(***************************************************************************)
\* the rows of the data that pass the global filter
passing ==
  {i \in 1..Len(tableData) :
     Len(globalFilter) = 0 \/ includesString(tableData[i], globalFilter)}

\* the least number of pages of d rows that hold n rows
ceilDiv(n, d) == CHOOSE k \in 0..n : k * d >= n /\ (k = 0 \/ (k - 1) * d < n)

\* C23: the page count is the ceiling of (rows passing the global filter) /
\* (page size), 3 for 25 rows at page size 10; when the filter matches no
\* row the displayed rows are empty, the summary counts 0 filtered rows and
\* the "no results" row is shown.
C23_PageCountAndNoResults ==
  /\ getPageCount = ceilDiv(Cardinality(passing), PageSize)
  /\ Cardinality(passing) = 25 /\ PageSize = 10 => getPageCount = 3
  /\ passing = {} =>
       /\ Len(getRowModel) = 0
       /\ summaryCount = 0
       /\ noResultsShown
  /\ passing # {} /\ pageIndex < getPageCount => ~noResultsShown

\* 25 rows, sorted, and a search text that no row contains
C23_Witness ==
  /\ Len(tableData) = 25
  /\ globalFilter = <<"z", "z">>
  /\ sorting = "desc"
  /\ noResultsShown

(***************************************************************************)
(* Properties of the order editor under overlapping requests               *)
(***************************************************************************)
\* C24 (as stated): whenever the editor is open, the loaded item list is the
\* item list of the selected order, however the item loads were interleaved.
C24_ItemsOfSelectedOrder ==
  modalState.isOpen /\ error = NULL =>
    /\ selectedOrder # NoOrder
    /\ orderItems = itemsWithCategory(serverItems[selectedOrder[1].order_id], services)

\* C25 (as stated): in every reachable state in which the editor dialog is
\* open (in view or edit mode) an order is selected, also when the dialog
\* was dismissed while a save was in flight and the save is answered later.
C25_OpenImpliesSelected ==
  modalState.isOpen /\ modalState.mode \in {"view", "edit"} => selectedOrder # NoOrder

\* C26: on the Categories screen, once every request has been answered and
\* none has failed, the displayed list holds no row the backend has deleted
\* (two overlapping deletes of rows A and B that both succeed leave neither A
\* nor B displayed) and holds every row the backend has (a create answered
\* while a delete is in flight is not lost)
C26_SettledListMatchesBackend ==
  mainShown /\ mainCalls = << >> =>
    /\ idsOf(mainData) \subseteq idsOf(serverMain)
    /\ idsOf(serverMain) \subseteq idsOf(mainData)

\* C28: a step of the user interface taken while the editor is open (typing
\* into a header field, Cancel, closing the dialog) sends no request and
\* leaves the orders list and the backend's orders as they are, and a step
\* that opens an order takes its field values from the orders list, so that
\* an order reopened after typing and closing shows its original values
C28_TypingThenCloseKeepsOrders ==
  [][/\ orderOp'.name = "ui" /\ modalState.isOpen =>
          /\ calls' = calls
          /\ orders' = orders
          /\ serverOrders' = serverOrders
     /\ orderOp'.name = "ui" /\ ~modalState.isOpen /\ selectedOrder' # NoOrder =>
          /\ orders' = orders
          /\ \E i \in 1..Len(orders) : selectedOrder' = <<orders[i]>>]_vars

\* the editor is open on a copy that was typed into, with nothing sent and
\* the list as the backend gave it
C28_Witness ==
  /\ DialogShown("edit")
  /\ \A i \in 1..Len(orders) : selectedOrder[1] # orders[i]
  /\ calls = {}
  /\ orders = ServerOrders
  /\ serverOrders = ServerOrders

\* the BHK tiers the add-item sub-form offers for the selected service
tiersOfSelected ==
  IF selectedService = << >> THEN {}
  ELSE {selectedService[1].pricetable[i].bhk :
          i \in 1..Len(selectedService[1].pricetable)}

\* C30: the tier of the add-item sub-form is empty or a tier of the price
\* table of the selected service (so selecting another service has cleared
\* it), the sub-form is at its defaults (no service, quantity "1", no tier)
\* whenever the editor is closed, and it is at its defaults when an add has
\* just completed with every request of it answered successfully
C30_TierOfSelectedService ==
  /\ newItem.bhk = "" \/ newItem.bhk \in tiersOfSelected
  /\ ~modalState.isOpen => newItem = EmptyNewItem
  /\ /\ orderOp.name \in {"add_items_reloaded", "add_orders_reloaded"}
     /\ error = NULL
     /\ \A c \in calls : c.kind # "add"
     => newItem = EmptyNewItem

\* an add that carries a tier is in flight and another service, which has no
\* tiers, has been selected since
C30_Witness ==
  /\ DialogShown("edit")
  /\ \E c \in calls : c.kind = "add" /\ c.payload.bhk # ""
                      /\ c.payload.service_code # newItem.service_code
  /\ newItem.service_code # NoService
  /\ tiersOfSelected = {}
  /\ newItem.bhk = ""

====
